---- MODULE Spec2Model ----
(***************************************************************************)
(* A model of the numerical core of MatrixMagic: utils/matrixOperations    *)
(* (src/unnamed/part_009) and the equation solver built on it              *)
(* (src/src/components/Calculator/EquationSolver.tsx).                     *)
(*                                                                         *)
(* Numbers.  A JavaScript number is modelled as an exact value             *)
(* <<n, d, e, k>> standing for (n / d) * 10^e * u^k, where u = 1 + 10^-11  *)
(* is one fixed number closer to 1 than the tolerance.  The fraction is    *)
(* kept in the canonical form  d > 0, gcd(n, d) = 1, d coprime to 10, n    *)
(* not divisible by 10, and zero = <<0, 1, 0, 0>>.  The decimal exponent   *)
(* lets the model hold values on both sides of the 1e-10 tolerance of the  *)
(* code, and the power of u values within 1e-10 of 1 that are not 1,       *)
(* without leaving TLC's integers.  Rounding of IEEE doubles is not        *)
(* modelled.                                                               *)
(*                                                                         *)
(* Heap.  Arrays are objects: `mats` holds the outer arrays (a sequence of *)
(* row ids each) and `rows` the rows (a sequence of numbers each); an id   *)
(* is an index into these.  new arrays are appended.                       *)
(***************************************************************************)
EXTENDS Integers, Sequences, FiniteSets, TLC

\* ------------------------------------------------------------------ bounds
\* Entries of the integer input matrices range over -MaxEntry..MaxEntry
\* (0..MaxEntry for the 3x3 inputs).
MaxEntry == 1

\* ----------------------------------------------------------------- numbers
Abs(x) == IF x < 0 THEN -x ELSE x

Min(x, y) == IF x <= y THEN x ELSE y

RECURSIVE Gcd(_, _)
Gcd(x, y) == IF y = 0 THEN x ELSE Gcd(y, x % y)

RECURSIVE Pow10(_)
Pow10(k) == IF k = 0 THEN 1 ELSE 10 * Pow10(k - 1)

\* Move factors of ten between the fraction and the exponent until the
\* denominator is coprime to 10 and the numerator is not a multiple of 10.
RECURSIVE Strip(_, _, _)
Strip(n, d, e) ==
    IF n % 10 = 0 THEN Strip(n \div 10, d, e + 1)
    ELSE IF d % 10 = 0 THEN Strip(n, d \div 10, e - 1)
    ELSE IF d % 2 = 0 THEN Strip(n * 5, d \div 2, e - 1)
    ELSE IF d % 5 = 0 THEN Strip(n * 2, d \div 5, e - 1)
    ELSE <<n, d, e>>

\* The canonical form of (n / d) * 10^e * u^k, for d # 0.
NormK(n, d, e, k) ==
    IF n = 0 THEN <<0, 1, 0, 0>>
    ELSE LET s == IF d < 0 THEN -1 ELSE 1
             g == Gcd(Abs(n), Abs(d))
             t == Strip(s * (n \div g), s * (d \div g), e)
         IN  <<t[1], t[2], t[3], k>>

\* The canonical form of (n / d) * 10^e, for d # 0.
Norm(n, d, e) == NormK(n, d, e, 0)

Zero == <<0, 1, 0, 0>>
One == <<1, 1, 0, 0>>
\* u = 1 + 10^-11
NearOne == <<1, 1, 0, 1>>
Num(k) == Norm(k, 1, 0)
\* k * 10^e
Sci(k, e) == Norm(k, 1, e)

IsZero(x) == x[1] = 0

Neg(x) == <<-x[1], x[2], x[3], x[4]>>

\* The fractions of x and y are each other's negatives.
FractionsCancel(x, y) == x[1] = -y[1] /\ x[2] = y[2] /\ x[3] = y[3]

\* x + y: both are brought to the smaller exponent.  For opposite fractions
\* and powers of u one apart, q * u^(k+1) - q * u^k = q * 10^-11 * u^k.  Any
\* other sum of two non-zero numbers with different powers of u is not a
\* number of the model: the operator is undefined there, and no run of the
\* specifications forms one.
Add(x, y) ==
    CASE IsZero(x) -> y
      [] ~IsZero(x) /\ IsZero(y) -> x
      [] ~IsZero(x) /\ ~IsZero(y) /\ x[4] = y[4] ->
            LET e == Min(x[3], y[3])
                nx == x[1] * Pow10(x[3] - e)
                ny == y[1] * Pow10(y[3] - e)
            IN  NormK(nx * y[2] + ny * x[2], x[2] * y[2], e, x[4])
      [] ~IsZero(x) /\ x[4] = y[4] + 1 /\ FractionsCancel(x, y) ->
            NormK(x[1], x[2], x[3] - 11, y[4])
      [] ~IsZero(x) /\ y[4] = x[4] + 1 /\ FractionsCancel(x, y) ->
            NormK(y[1], y[2], y[3] - 11, x[4])

Sub(x, y) == Add(x, Neg(y))

Mul(x, y) ==
    IF IsZero(x) \/ IsZero(y) THEN Zero
    ELSE LET g1 == Gcd(Abs(x[1]), y[2])
             g2 == Gcd(Abs(y[1]), x[2])
         IN  NormK((x[1] \div g1) * (y[1] \div g2),
                   (x[2] \div g2) * (y[2] \div g1), x[3] + y[3], x[4] + y[4])

\* x / y for y # 0 (the code never divides by an exact zero: every divisor
\* has passed a tolerance test).
Div(x, y) ==
    Mul(x, IF y[1] < 0 THEN <<-y[2], -y[1], -y[3], -y[4]>>
           ELSE <<y[2], y[1], -y[3], -y[4]>>)

\* p * 10^g > q for naturals p >= 1, q and g >= 0, without forming 10^g
\* when it is large.
ScaledGt(p, g, q) == IF g >= 10 THEN TRUE ELSE p > q \div Pow10(g)

\* Math.abs(x) > Math.abs(y) for the fractions of x and y, their powers of
\* u left aside.
FractionAbsGt(x, y) ==
    IF IsZero(x) THEN FALSE
    ELSE IF IsZero(y) THEN TRUE
    ELSE LET l == Abs(x[1]) * y[2]
             r == Abs(y[1]) * x[2]
             g == x[3] - y[3]
         IN  IF g >= 0 THEN ScaledGt(l, g, r)
             ELSE ~ScaledGt(r, -g, l)
                  /\ ~(g > -10 /\ l % Pow10(-g) = 0 /\ l \div Pow10(-g) = r)

\* The fractions of x and y have the same magnitude.
FractionAbsEq(x, y) == Abs(x[1]) = Abs(y[1]) /\ x[2] = y[2] /\ x[3] = y[3]

\* Math.abs(x) > Math.abs(y).  Two different fractions of the model differ
\* by a factor of at least 1 + 2^-31, more than u^9: when the fractions
\* differ they decide, and the powers of u decide when they do not.
AbsGt(x, y) ==
    CASE x[4] = y[4] -> FractionAbsGt(x, y)
      [] x[4] # y[4] /\ Abs(x[4] - y[4]) <= 9 ->
            IF IsZero(x) THEN FALSE
            ELSE IF IsZero(y) THEN TRUE
            ELSE IF FractionAbsEq(x, y) THEN x[4] > y[4]
            ELSE FractionAbsGt(x, y)

\* The tolerance of the code, 1e-10 = TolMantissa * 10^TolExponent.
TolMantissa == 1
TolExponent == -10
Tol == Sci(TolMantissa, TolExponent)

\* Math.abs(x) < 1e-10
BelowTol(x) == AbsGt(Tol, x)

\* Math.abs(x) > 1e-10
AboveTol(x) == AbsGt(x, Tol)

\* Math.abs(x - 1) > 1e-10.  A fraction of the model other than 1 is further
\* than 2^-31 from 1 (its numerator and denominator are below 2^31), and u^k
\* for |k| <= 9 is within 1e-10 of 1: the number is away from 1 exactly when
\* its fraction is not 1.
AwayFromOne(x) ==
    CASE Abs(x[4]) <= 9 -> <<x[1], x[2], x[3]>> # <<1, 1, 0>>


\* Math.pow(1, i): the sign of the cofactor lost.
PowPlusOne(i) == One

\* Math.pow(-1, i)
PowMinusOne(i) == IF i % 2 = 0 THEN One ELSE Neg(One)

\* -------------------------------------------------------------------- heap
\* A heap is a record [mats, rows].  A matrix reference is an index into
\* mats, a vector reference an index into rows.
EmptyHeap == [mats |-> <<>>, rows |-> <<>>]

\* The contents of the matrix at reference m: a sequence of rows of numbers.
MatrixOf(h, m) == [i \in 1..Len(h.mats[m]) |-> h.rows[h.mats[m][i]]]

\* A new matrix object with new row objects holding the contents M.
NewMatrix(h, M) ==
    [h |-> [mats |-> Append(h.mats, [i \in 1..Len(M) |-> Len(h.rows) + i]),
            rows |-> h.rows \o M],
     ref |-> Len(h.mats) + 1]

\* A new row object holding the contents r.
NewVector(h, r) ==
    [h |-> [h EXCEPT !.rows = Append(@, r)], ref |-> Len(h.rows) + 1]

\* matrix.map(row => row): a new outer array over the same row objects.
ShallowCopyMatrix(h, m) ==
    [h |-> [h EXCEPT !.mats = Append(@, h.mats[m])], ref |-> Len(h.mats) + 1]

\* matrix.map(row => [...row]): a new outer array over new copies of the rows.
CopyMatrix(h, m) == NewMatrix(h, MatrixOf(h, m))

\* ------------------------------------------------------- results of a call
Value(kind, val) == [kind |-> kind, val |-> val]
Error(err) == [kind |-> "error", val |-> err]
NoResult == [kind |-> "none", val |-> "none"]

IsError(r) == r.kind = "error"

\* ------------------------------------------------------ numeric primitives
NumRows(A) == Len(A)
NumCols(A) == Len(A[1])

\* createMatrix(rows, cols, fill)
createMatrix(nrows, ncols, fill) == [i \in 1..nrows |-> [j \in 1..ncols |-> fill]]

addMatrices(A, B) ==
    IF NumRows(A) # NumRows(B) \/ NumCols(A) # NumCols(B)
    THEN Error("DimensionMismatch")
    ELSE Value("matrix", [i \in 1..NumRows(A) |->
                            [j \in 1..NumCols(A) |-> Add(A[i][j], B[i][j])]])

subtractMatrices(A, B) ==
    IF NumRows(A) # NumRows(B) \/ NumCols(A) # NumCols(B)
    THEN Error("DimensionMismatch")
    ELSE Value("matrix", [i \in 1..NumRows(A) |->
                            [j \in 1..NumCols(A) |-> Sub(A[i][j], B[i][j])]])

\* The inner loop started at k = 1 instead of k = 0: the first term lost.
RECURSIVE AccumulateFromOne(_, _, _, _, _)
AccumulateFromOne(A, B, i, j, upto) ==
    IF upto <= 1 THEN Zero
    ELSE Add(AccumulateFromOne(A, B, i, j, upto - 1), Mul(A[i][upto], B[upto][j]))

\* The inner loop of multiplyMatrices: result[i][j] after the terms k < upto
\* have been added to the initial fill 0, in the order of the loop.
RECURSIVE Accumulate(_, _, _, _, _)
Accumulate(A, B, i, j, upto) ==
    IF upto = 0 THEN Zero
    ELSE Add(Accumulate(A, B, i, j, upto - 1), Mul(A[i][upto], B[upto][j]))

multiplyMatrices(A, B) ==
    IF NumCols(A) # NumRows(B)
    THEN Error("DimensionMismatch")
    ELSE Value("matrix", [i \in 1..NumRows(A) |->
                            [j \in 1..NumCols(B) |-> Accumulate(A, B, i, j, NumCols(A))]])

scalarMultiply(A, scalar) ==
    Value("matrix", [i \in 1..NumRows(A) |-> [j \in 1..NumCols(A) |-> Mul(A[i][j], scalar)]])

transpose(A) ==
    Value("matrix", [colIndex \in 1..NumCols(A) |-> [i \in 1..NumRows(A) |-> A[i][colIndex]]])

\* ------------------------------------------------------------ determinant
\* matrix.slice(1).map(row => row.filter((_, j) => j !== i)), i counted from 0
Minor(A, i) ==
    [r \in 1..(NumRows(A) - 1) |->
        [j \in 1..(NumCols(A) - 1) |-> IF j <= i THEN A[r + 1][j] ELSE A[r + 1][j + 1]]]

\* determinant of a square matrix; DetLoop is the for loop, det after the
\* columns i < upto.
RECURSIVE DeterminantOf(_), DetLoop(_, _)
DetLoop(A, upto) ==
    IF upto = 0 THEN Zero
    ELSE Add(DetLoop(A, upto - 1),
             Mul(Mul(A[1][upto], PowMinusOne(upto - 1)), DeterminantOf(Minor(A, upto - 1))))

DeterminantOf(A) ==
    IF NumRows(A) = 1 THEN A[1][1]
    ELSE IF NumRows(A) = 2 THEN Sub(Mul(A[1][1], A[2][2]), Mul(A[1][2], A[2][1]))
    ELSE DetLoop(A, NumRows(A))

\* determinant returning 0 for a matrix that is not square, not throwing.
determinantDefaultsToZero(A) ==
    IF NumRows(A) # NumCols(A) THEN Value("number", Zero)
    ELSE Value("number", DeterminantOf(A))

determinant(A) ==
    IF NumRows(A) # NumCols(A) THEN Error("NotSquare")
    ELSE Value("number", DeterminantOf(A))

\* ------------------------------------------------------ row-reduction engine
\* Rows and columns are counted from 0, as in the code.
\* result[i][j] for the outer array ids over the row heap rws.
Entry(rws, ids, i, j) == rws[ids[i + 1]][j + 1]

\* [result[p], result[q]] = [result[q], result[p]]
SwapRows(ids, p, q) ==
    [i \in 1..Len(ids) |-> IF i = p + 1 THEN ids[q + 1]
                           ELSE IF i = q + 1 THEN ids[p + 1] ELSE ids[i]]

\* The pivot search: maxRow after the rows below i have been compared, the
\* first row of the largest magnitude in column col winning.
RECURSIVE FindMaxRow(_, _, _, _, _)
FindMaxRow(rws, ids, col, maxRow, i) ==
    IF i >= Len(ids) THEN maxRow
    ELSE FindMaxRow(rws, ids, col,
                    IF AbsGt(Entry(rws, ids, i, col), Entry(rws, ids, maxRow, col))
                    THEN i ELSE maxRow,
                    i + 1)

\* result[p][j] /= pivot for every j
ScaleRow(row, pivot) == [j \in 1..Len(row) |-> Div(row[j], pivot)]

\* result[i][j] -= factor * result[p][j] for every j
EliminateRow(row, factor, pivotRowContents) ==
    [j \in 1..Len(row) |-> Sub(row[j], Mul(factor, pivotRowContents[j]))]

\* Whether rref eliminates row i for the pivot in (pivotRow, col).
RrefEliminates(rws, ids, i, pivotRow, col) ==
    i # pivotRow /\ AboveTol(Entry(rws, ids, i, col))

\* One iteration of the for loop of rref on the loop state
\* s = [h, res, pivotRow, col]: res is the reference of `result`.
RrefColumn(s) ==
    LET ids == s.h.mats[s.res]
        maxRow == FindMaxRow(s.h.rows, ids, s.col, s.pivotRow, s.pivotRow + 1)
    IN  IF BelowTol(Entry(s.h.rows, ids, maxRow, s.col))
        THEN [s EXCEPT !.col = @ + 1]
        ELSE LET swapped == SwapRows(ids, s.pivotRow, maxRow)
                 pid == swapped[s.pivotRow + 1]
                 pivot == s.h.rows[pid][s.col + 1]
                 scaled == [s.h.rows EXCEPT ![pid] = ScaleRow(@, pivot)]
                 eliminated ==
                     [id \in DOMAIN scaled |->
                         IF \E i \in 0..(Len(swapped) - 1) :
                                /\ swapped[i + 1] = id
                                /\ RrefEliminates(scaled, swapped, i, s.pivotRow, s.col)
                         THEN EliminateRow(scaled[id], scaled[id][s.col + 1], scaled[pid])
                         ELSE scaled[id]]
             IN  [h |-> [mats |-> [s.h.mats EXCEPT ![s.res] = swapped],
                         rows |-> eliminated],
                  res |-> s.res,
                  pivotRow |-> s.pivotRow + 1,
                  col |-> s.col + 1]

\* The loop test with the last row left out.
RrefStopsEarly(s) ==
    /\ s.col < Len(s.h.rows[s.h.mats[s.res][1]])
    /\ s.pivotRow < Len(s.h.mats[s.res]) - 1

\* for (let col = 0; col < cols && pivotRow < rows; col++)
RrefContinues(s) ==
    /\ s.col < Len(s.h.rows[s.h.mats[s.res][1]])
    /\ s.pivotRow < Len(s.h.mats[s.res])

RECURSIVE RrefLoop(_)
RrefLoop(s) == IF RrefContinues(s) THEN RrefLoop(RrefColumn(s)) ELSE s

\* const result = matrix.map(row => [...row])
RrefCopy(h, m) == CopyMatrix(h, m)

\* The loop state before the first iteration, c being the copy of the
\* operand: let pivotRow = 0 and let col = 0.
RrefStart(c) == [h |-> c.h, res |-> c.ref, pivotRow |-> 0, col |-> 0]

\* rref(matrix) on the heap: the final loop state; .res is the returned matrix.
rref(h, m) == RrefLoop(RrefStart(RrefCopy(h, m)))

\* The contents rref returns for the contents A.
RrefOf(A) ==
    LET n == NewMatrix(EmptyHeap, A)
        s == rref(n.h, n.ref)
    IN  MatrixOf(s.h, s.res)

\* row.some(val => Math.abs(val) > 1e-10)
RowIsNonZero(row) == \E j \in 1..Len(row) : AboveTol(row[j])

\* rank: the number of rows of rref(matrix) with an entry above the tolerance.
RankOf(R) == Cardinality({i \in 1..Len(R) : RowIsNonZero(R[i])})

\* ------------------------------------------------------------ Gauss-Jordan
\* One iteration of the for loop of gaussJordan on s = [h, res, i].
GaussJordanStep(s) ==
    LET ids == s.h.mats[s.res]
        maxRow == FindMaxRow(s.h.rows, ids, s.i, s.i, s.i + 1)
        swapped == SwapRows(ids, s.i, maxRow)
        pid == swapped[s.i + 1]
        pivot == s.h.rows[pid][s.i + 1]
        mats1 == [s.h.mats EXCEPT ![s.res] = swapped]
    IN  IF BelowTol(pivot)
        THEN [h |-> [mats |-> mats1, rows |-> s.h.rows], res |-> s.res, i |-> s.i + 1]
        ELSE LET scaled == [s.h.rows EXCEPT ![pid] = ScaleRow(@, pivot)]
                 eliminated ==
                     [id \in DOMAIN scaled |->
                         IF \E k \in 0..(Len(swapped) - 1) : swapped[k + 1] = id /\ k # s.i
                         THEN EliminateRow(scaled[id], scaled[id][s.i + 1], scaled[pid])
                         ELSE scaled[id]]
             IN  [h |-> [mats |-> mats1, rows |-> eliminated],
                  res |-> s.res,
                  i |-> s.i + 1]

RECURSIVE GaussJordanLoop(_)
GaussJordanLoop(s) ==
    IF s.i < Min(Len(s.h.mats[s.res]), Len(s.h.rows[s.h.mats[s.res][1]]))
    THEN GaussJordanLoop(GaussJordanStep(s))
    ELSE s

gaussJordan(h, m) ==
    LET c == CopyMatrix(h, m)
    IN  GaussJordanLoop([h |-> c.h, res |-> c.ref, i |-> 0])

\* ---------------------------------------------------------------- inverse
\* matrix.map((row, i) => [...row, ...identity row i])
Augment(A) ==
    [i \in 1..NumRows(A) |->
        A[i] \o [j \in 1..NumRows(A) |-> IF i = j THEN One ELSE Zero]]

\* gaussJordan(augmented).slice(0, n).map(row => row.slice(n))
RightHalf(G, n) == [i \in 1..n |-> SubSeq(G[i], n + 1, Len(G[i]))]

\* The closed form for n = 2.
Inverse2x2(A, det) ==
    << <<Div(A[2][2], det), Div(Neg(A[1][2]), det)>>,
       <<Div(Neg(A[2][1]), det), Div(A[1][1], det)>> >>

\* inverse(matrix) for the contents A: an error or the contents returned.
\* The Gauss-Jordan path works on matrices of its own making.
inverse(A) ==
    IF NumRows(A) # NumCols(A) THEN Error("NotSquare")
    ELSE LET det == DeterminantOf(A)
         IN  IF BelowTol(det) THEN Error("Singular")
             ELSE IF NumRows(A) = 2 THEN Value("matrix", Inverse2x2(A, det))
             ELSE LET n == NewMatrix(EmptyHeap, Augment(A))
                      g == gaussJordan(n.h, n.ref)
                  IN  Value("matrix", RightHalf(MatrixOf(g.h, g.res), NumRows(A)))

\* ------------------------------------------------------------ vector module
\* a.reduce((sum, val, i) => sum + val * b[i], 0) over the first upto entries
RECURSIVE DotLoop(_, _, _)
DotLoop(u, v, upto) ==
    IF upto = 0 THEN Zero ELSE Add(DotLoop(u, v, upto - 1), Mul(u[upto], v[upto]))

dotProduct(u, v) ==
    IF Len(u) # Len(v) THEN Error("DimensionMismatch")
    ELSE Value("number", DotLoop(u, v, Len(u)))

\* The second component with its terms exchanged.
crossProductExchanged(u, v) ==
    IF Len(u) # 3 \/ Len(v) # 3 THEN Error("Unsupported")
    ELSE Value("vector", << Sub(Mul(u[2], v[3]), Mul(u[3], v[2])),
                            Sub(Mul(u[1], v[3]), Mul(u[3], v[1])),
                            Sub(Mul(u[1], v[2]), Mul(u[2], v[1])) >>)

crossProduct(u, v) ==
    IF Len(u) # 3 \/ Len(v) # 3 THEN Error("Unsupported")
    ELSE Value("vector", << Sub(Mul(u[2], v[3]), Mul(u[3], v[2])),
                            Sub(Mul(u[3], v[1]), Mul(u[1], v[3])),
                            Sub(Mul(u[1], v[2]), Mul(u[2], v[1])) >>)

\* Math.sqrt(x), kept as the non-negative root of its radicand: it is zero
\* exactly when the radicand is.
Sqrt(x) == [sqrt |-> x]

\* magnitude === 0 that never holds.
SqrtIsNeverZero(r) == FALSE

\* magnitude === 0
SqrtIsZero(r) == IsZero(r.sqrt)

\* vector.reduce((sum, val) => sum + val * val, 0)
SumOfSquares(u) == DotLoop(u, u, Len(u))

vectorMagnitude(u) == Value("number", Sqrt(SumOfSquares(u)))

\* vector.map(val => val / magnitude), each entry kept as the quotient
normalizeVector(u) ==
    LET magnitude == Sqrt(SumOfSquares(u))
    IN  IF SqrtIsZero(magnitude) THEN Error("DegenerateInput")
        ELSE Value("vector", [i \in 1..Len(u) |-> [num |-> u[i], over |-> magnitude]])

\* Math.acos(Math.max(-1, Math.min(1, dot / (magA * magB)))), kept as its
\* argument before the clamp
angleBetweenVectors(u, v) ==
    LET dot == dotProduct(u, v)
        magA == Sqrt(SumOfSquares(u))
        magB == Sqrt(SumOfSquares(v))
    IN  IF IsError(dot) THEN dot
        ELSE IF SqrtIsZero(magA) \/ SqrtIsZero(magB) THEN Error("DegenerateInput")
        ELSE Value("number", [acos |-> [dot |-> dot.val, magA |-> magA, magB |-> magB]])

\* --------------------------------------------------------- equation solver
\* A.map((row, i) => [...row, b[i]])
AugmentWith(A, rhs) == [i \in 1..NumRows(A) |-> Append(A[i], rhs[i])]

\* row.slice(0, n).every(val => Math.abs(val) < 1e-10)
IsZeroRow(row, n) == \A j \in 1..n : BelowTol(row[j])

\* The inconsistency test of solveByRREF on row `row` of the reduced matrix.
IsContradictionRow(row, n) == IsZeroRow(row, n) /\ AboveTol(row[n + 1])

\* The inner loop of the pivot count: the first column j >= from (counted
\* from 0) of the row with an entry above the tolerance, or n when the loop
\* ends without a break.
RECURSIVE FirstPivotCol(_, _, _)
FirstPivotCol(row, n, from) ==
    IF from >= n THEN n
    ELSE IF AboveTol(row[from + 1]) THEN from
    ELSE FirstPivotCol(row, n, from + 1)

\* pivotCols after the rows i < upto of the reduced matrix R were scanned.
RECURSIVE PivotCols(_, _, _)
PivotCols(R, n, upto) ==
    IF upto = 0 THEN <<>>
    ELSE LET before == PivotCols(R, n, upto - 1)
             j == FirstPivotCol(R[upto], n, 0)
         IN  IF j < n THEN Append(before, j) ELSE before

\* solution after the assignments solution[pivotCols[i]] = rrefMatrix[i][n]
\* for i < upto, starting from new Array(n).fill(0).
RECURSIVE FillSolution(_, _, _, _)
FillSolution(R, n, pivotCols, upto) ==
    IF upto = 0 THEN [j \in 1..n |-> Zero]
    ELSE [FillSolution(R, n, pivotCols, upto - 1)
             EXCEPT ![pivotCols[upto] + 1] = R[upto][n + 1]]

\* The Solution record: type, whether a solution vector is present and its
\* contents, and the number the message of an infinite result reports.  The
\* textual steps are left out.
Solution(type, hasSolution, solution, free) ==
    [type |-> type, hasSolution |-> hasSolution, solution |-> solution, free |-> free]

\* solveByRREF(A, b, steps) given the contents R = rref(augmented).
SolveFromRref(R) ==
    LET m == Len(R)
        n == Len(R[1]) - 1
        pivotCols == PivotCols(R, n, m)
        pivotCount == Len(pivotCols)
    IN  IF \E i \in 1..m : IsContradictionRow(R[i], n)
        THEN Solution("none", FALSE, <<>>, 0)
        ELSE IF pivotCount = n
        THEN Solution("unique", TRUE, FillSolution(R, n, pivotCols, pivotCount), 0)
        ELSE Solution("infinite", FALSE, <<>>, n - pivotCount)

\* b.map(val => [val])
ColumnOf(v) == [i \in 1..Len(v) |-> <<v[i]>>]

\* xMatrix.map(row => row[0])
FirstColumn(M) == [i \in 1..Len(M) |-> M[i][1]]

\* det === 0: the singularity test without the tolerance.
DetIsExactlyZero(det) == IsZero(det)

\* Math.abs(det) < 1e-10 in solveByInverse
DetIsSingular(det) == BelowTol(det)

\* solveByInverse(A, b, steps): the Solution it returns, or the error a call
\* it makes throws.
solveByInverse(A, rhs) ==
    IF NumRows(A) # NumCols(A)
    THEN Value("solution", Solution("none", FALSE, <<>>, 0))
    ELSE IF DetIsSingular(DeterminantOf(A))
    THEN Value("solution", Solution("none", FALSE, <<>>, 0))
    ELSE LET AInv == inverse(A)
         IN  IF IsError(AInv) THEN AInv
             ELSE LET xMatrix == multiplyMatrices(AInv.val, ColumnOf(rhs))
                  IN  IF IsError(xMatrix) THEN xMatrix
                      ELSE Value("solution",
                                 Solution("unique", TRUE, FirstColumn(xMatrix.val), 0))

\* ----------------------------------------------------- advanced calculators
\* x > 0: the test of the roots with the equality lost.
Positive(x) == x[1] > 0

\* x >= 0
NonNegative(x) == x[1] >= 0

\* (trace + sign * sqrt_disc) / 2, kept as its parts.
Root(trace, sign, sqrtDisc) == [trace |-> trace, sign |-> sign, root |-> sqrtDisc, over |-> 2]

\* calculateCharacteristicPolynomial(A): the coefficients and the roots (the
\* formatted polynomial is left out).
calculateCharacteristicPolynomial(A) ==
    IF NumRows(A) # NumCols(A) THEN Error("NotSquare")
    ELSE IF NumRows(A) = 2
    THEN LET trace == Add(A[1][1], A[2][2])
             det == Sub(Mul(A[1][1], A[2][2]), Mul(A[1][2], A[2][1]))
             discriminant == Sub(Mul(trace, trace), Mul(Num(4), det))
         IN  Value("polynomial",
                   [coefficients |-> <<One, Neg(trace), det>>,
                    roots |-> IF NonNegative(discriminant)
                              THEN <<Root(trace, 1, Sqrt(discriminant)),
                                     Root(trace, -1, Sqrt(discriminant))>>
                              ELSE <<>>])
    ELSE Error("Unsupported")

\* createMatrix(n, n, 0) with identity[i][i] = 1 for every i
identity(n) == [i \in 1..n |-> [j \in 1..n |-> IF i = j THEN One ELSE Zero]]

\* A loop state with the new object n in the variable named field.
Assign(s, field, n) == [s EXCEPT !.h = n.h, ![field] = n.ref]

\* let result = identity; let term = identity: both name the new object n.
StartAt(s, n) == [s EXCEPT !.h = n.h, !.result = n.ref, !.term = n.ref]

\* result = multiplyMatrices(result, A)
PowerMultiply(s, m) ==
    Assign(s, "result",
           NewMatrix(s.h, multiplyMatrices(MatrixOf(s.h, s.result), MatrixOf(s.h, m)).val))

\* for (let i = 1; i < power; i++) of matrixPower on the loop state
\* s = [h, result, i]
RECURSIVE PowerLoop(_, _, _)
PowerLoop(s, m, power) ==
    IF s.i >= power THEN s
    ELSE PowerLoop([PowerMultiply(s, m) EXCEPT !.i = @ + 1], m, power)

\* matrixPower(A, power) on the heap: .result is the returned object.
matrixPower(h, m, power) ==
    IF power = 0 THEN Assign([h |-> h, result |-> m, i |-> 0], "result",
                             NewMatrix(h, identity(Len(h.mats[m]))))
    ELSE IF power = 1 THEN [h |-> h, result |-> m, i |-> 1]
    ELSE PowerLoop([h |-> h, result |-> m, i |-> 1], m, power)

\* term = multiplyMatrices(term, A)
SeriesTerm(s, m) ==
    Assign(s, "term",
           NewMatrix(s.h, multiplyMatrices(MatrixOf(s.h, s.term), MatrixOf(s.h, m)).val))

\* const scaledTerm = scalarMultiply(term, sign / factorial), the quotient
\* exact (sign is 1 in matrixExponential)
SeriesScaledTerm(s) ==
    Assign(s, "scaledTerm",
           NewMatrix(s.h, scalarMultiply(MatrixOf(s.h, s.term),
                                         Div(Num(s.sign), Num(s.factorial))).val))

\* result = addMatrices(result, scaledTerm)
SeriesResult(s) ==
    Assign(s, "result",
           NewMatrix(s.h, addMatrices(MatrixOf(s.h, s.result), MatrixOf(s.h, s.scaledTerm)).val))

\* The first ten terms after I of the series of matrixExponential: the body
\* of for (let k = 1; k <= 10; k++) on the loop state
\* s = [h, result, term, scaledTerm, factorial, sign, k].
ExponentialTerm(s, m) ==
    [SeriesResult(SeriesScaledTerm(SeriesTerm([s EXCEPT !.factorial = @ * s.k], m)))
        EXCEPT !.k = @ + 1]

RECURSIVE ExponentialLoop(_, _)
ExponentialLoop(s, m) == IF s.k > 10 THEN s ELSE ExponentialLoop(ExponentialTerm(s, m), m)

\* matrixExponential(A) on the heap: .result is the returned object.
matrixExponential(h, m) ==
    ExponentialLoop(
        StartAt([h |-> h, result |-> m, term |-> m, scaledTerm |-> m,
                 factorial |-> 1, sign |-> 1, k |-> 1],
                NewMatrix(h, identity(Len(h.mats[m])))),
        m)

\* The body of the loops of matrixSine and matrixCosine with the sign left
\* as it is.
AlternatingTermSameSign(s, m) ==
    [SeriesResult(SeriesScaledTerm(SeriesTerm(
         SeriesTerm([s EXCEPT !.factorial = @ * (s.k - 1) * s.k], m), m)))
        EXCEPT !.k = @ + 2]

\* The body of the loops of matrixSine and matrixCosine (k += 2).
AlternatingTerm(s, m) ==
    [SeriesResult(SeriesScaledTerm(SeriesTerm(
         SeriesTerm([s EXCEPT !.factorial = @ * (s.k - 1) * s.k], m), m)))
        EXCEPT !.sign = -@, !.k = @ + 2]

RECURSIVE AlternatingLoop(_, _, _)
AlternatingLoop(s, m, last) ==
    IF s.k > last THEN s ELSE AlternatingLoop(AlternatingTerm(s, m), m, last)

\* matrixSine(A) on the heap: result and term start as A itself.
matrixSine(h, m) ==
    AlternatingLoop([h |-> h, result |-> m, term |-> m, scaledTerm |-> m,
                     factorial |-> 1, sign |-> -1, k |-> 3], m, 9)

\* matrixCosine(A) on the heap: result and term start as the identity.
matrixCosine(h, m) ==
    AlternatingLoop(
        StartAt([h |-> h, result |-> m, term |-> m, scaledTerm |-> m,
                 factorial |-> 1, sign |-> -1, k |-> 2],
                NewMatrix(h, identity(Len(h.mats[m])))),
        m, 8)

\* What calculateMatrixFunction hands to its caller: the heap and the thrown
\* error or the returned object.
Thrown(h, err) == [h |-> h, r |-> Error(err)]
Returned(s) == [h |-> s.h, r |-> Value("matrix", s.result)]

\* !power || power < 0, for a number
PowerIsRefused(power) == power = 0 \/ power < 0

calculateMatrixFunction(h, m, func, power) ==
    IF Len(h.mats[m]) # Len(h.rows[h.mats[m][1]]) THEN Thrown(h, "NotSquare")
    ELSE CASE func = "power" ->
                  IF PowerIsRefused(power) THEN Thrown(h, "InvalidPower")
                  ELSE Returned(matrixPower(h, m, power))
           [] func = "exp" -> Returned(matrixExponential(h, m))
           [] func = "sin" -> Returned(matrixSine(h, m))
           [] func = "cos" -> Returned(matrixCosine(h, m))
           [] OTHER -> Thrown(h, "UnknownFunction")

\* ------------------------------------------------------------ step traces
\* A step record of a trace (interface Step, interface AnimationStep): its
\* id, the kind of its description, the reference of the matrix it holds and
\* the rows its operation label names, counted from 0 (-1 where it names
\* none).  `working` is no field of the code's record: it is the contents
\* the working matrix had when the step was emitted, kept to state what the
\* step was meant to show.
Step(id, kind, matrix, row, other, working) ==
    [id |-> id, kind |-> kind, matrix |-> matrix, row |-> row, other |-> other,
     working |-> working]

\* matrix: U -- the step holds the working matrix itself.
Reference(h, m) == [h |-> h, ref |-> m]

\* matrix: result.map(row => [...row]) -- the step holds a copy.
Snapshot(h, m) == CopyMatrix(h, m)

\* The push with id: stepId, the increment lost.
PushWithoutIncrement(s, kind, held, row, other) ==
    [s EXCEPT !.h = held.h,
              !.steps = Append(@, Step(s.stepId, kind, held.ref, row, other,
                                       MatrixOf(s.h, s.res)))]

\* steps.push({ id: stepId++, ..., matrix: held }) on a loop state s with the
\* fields h, res (the working matrix), steps and stepId; held is the heap
\* and the reference the evaluation of the matrix field gave.
Push(s, kind, held, row, other) ==
    [s EXCEPT !.h = held.h,
              !.steps = Append(@, Step(s.stepId, kind, held.ref, row, other,
                                       MatrixOf(s.h, s.res))),
              !.stepId = @ + 1]

\* A step that holds a copy of the working matrix.
PushSnapshot(s, kind, row, other) == Push(s, kind, Snapshot(s.h, s.res), row, other)

\* A step that holds the working matrix itself.
PushReference(s, kind, row, other) == Push(s, kind, Reference(s.h, s.res), row, other)

\* The working matrix of the loop state s with row p (from 0) replaced by
\* the contents r: the row object is written in place.
WriteRow(s, p, r) == [s EXCEPT !.h.rows[s.h.mats[s.res][p + 1]] = r]

\* The contents of row p (from 0) of the working matrix.
RowAt(s, p) == s.h.rows[s.h.mats[s.res][p + 1]]

\* The elimination test of the traced row reduction for row i.
TraceEliminates(s, i) == i # s.pivotRow /\ AboveTol(RowAt(s, i)[s.col + 1])

\* The elimination loop of the traced row reduction, from row i on: each
\* eliminated row is a step.
RECURSIVE TraceEliminate(_, _)
TraceEliminate(s, i) ==
    IF i >= Len(s.h.mats[s.res]) THEN s
    ELSE IF TraceEliminates(s, i)
    THEN TraceEliminate(
             PushSnapshot(WriteRow(s, i, EliminateRow(RowAt(s, i), RowAt(s, i)[s.col + 1],
                                                      RowAt(s, s.pivotRow))),
                          "eliminate", i, s.pivotRow),
             i + 1)
    ELSE TraceEliminate(s, i + 1)

\* The swap of rows p and maxRow with no step pushed for it.
TraceSwapUnrecorded(s, p, maxRow) ==
    IF maxRow # p THEN [s EXCEPT !.h.mats[s.res] = SwapRows(@, p, maxRow)] ELSE s

\* The swap of rows p and maxRow (from 0) of the working matrix, a step when
\* they differ.
TraceSwap(s, p, maxRow) ==
    IF maxRow # p
    THEN PushSnapshot([s EXCEPT !.h.mats[s.res] = SwapRows(@, p, maxRow)], "swap", p, maxRow)
    ELSE s

\* The scaling of row p by its entry in column c: a step.
TraceScale(s, p, c) ==
    PushSnapshot(WriteRow(s, p, ScaleRow(RowAt(s, p), RowAt(s, p)[c + 1])), "scale", p, -1)

\* The scaling of the pivot row of the traced row reduction, left out when
\* the pivot is within the tolerance of 1.
TraceRrefScale(s) ==
    IF AwayFromOne(RowAt(s, s.pivotRow)[s.col + 1]) THEN TraceScale(s, s.pivotRow, s.col) ELSE s

\* pivotRow++ and the col++ of the loop
TraceRrefAdvance(s) == [s EXCEPT !.pivotRow = @ + 1, !.col = @ + 1]

\* The iteration of the traced row reduction whose largest entry is in row
\* maxRow.
TraceRrefPivot(s, maxRow) ==
    IF BelowTol(Entry(s.h.rows, s.h.mats[s.res], maxRow, s.col))
    THEN [s EXCEPT !.col = @ + 1]
    ELSE TraceRrefAdvance(TraceEliminate(TraceRrefScale(TraceSwap(s, s.pivotRow, maxRow)), 0))

\* One iteration of the for loop of the traced row reduction on the loop
\* state s = [h, res, pivotRow, col, steps, stepId].
TraceRrefColumn(s) ==
    TraceRrefPivot(s, FindMaxRow(s.h.rows, s.h.mats[s.res], s.col, s.pivotRow, s.pivotRow + 1))

\* for (let col = 0; col < cols && pivotRow < rows; col++)
TraceRrefContinues(s) ==
    /\ s.col < Len(RowAt(s, 0))
    /\ s.pivotRow < Len(s.h.mats[s.res])

RECURSIVE TraceRrefLoop(_)
TraceRrefLoop(s) == IF TraceRrefContinues(s) THEN TraceRrefLoop(TraceRrefColumn(s)) ELSE s

\* generateRREFSteps(matrix) on the heap: the final loop state; .steps is the
\* returned trace.
generateRREFSteps(h, m) ==
    LET c == CopyMatrix(h, m)
        first == Snapshot(c.h, c.ref)
    IN  PushSnapshot(
            TraceRrefLoop([h |-> first.h, res |-> c.ref, pivotRow |-> 0, col |-> 0,
                           steps |-> <<Step(0, "start", first.ref, -1, -1,
                                            MatrixOf(c.h, c.ref))>>,
                           stepId |-> 1]),
            "complete", -1, -1)

\* generateGaussianSteps(matrix): the loops and tests of generateRREFSteps,
\* statement for statement, with other descriptions.
generateGaussianSteps(h, m) == generateRREFSteps(h, m)

\* The elimination loop of the traced inverse for the pivot row s.i, from
\* row k on.
RECURSIVE TraceInverseEliminate(_, _)
TraceInverseEliminate(s, k) ==
    IF k >= Len(s.h.mats[s.res]) THEN s
    ELSE IF k # s.i /\ AboveTol(RowAt(s, k)[s.i + 1])
    THEN TraceInverseEliminate(
             PushSnapshot(WriteRow(s, k, EliminateRow(RowAt(s, k), RowAt(s, k)[s.i + 1],
                                                      RowAt(s, s.i))),
                          "eliminate", k, s.i),
             k + 1)
    ELSE TraceInverseEliminate(s, k + 1)

\* The iteration of generateInverseSteps after its swap: the singular step
\* and the break, or the scaling, the elimination and the i++ of the loop.
TraceInversePivot(s) ==
    IF BelowTol(RowAt(s, s.i)[s.i + 1])
    THEN [PushSnapshot(s, "singular", -1, -1) EXCEPT !.stopped = TRUE]
    ELSE [TraceInverseEliminate(TraceScale(s, s.i, s.i), 0) EXCEPT !.i = @ + 1]

\* One iteration of the for loop of generateInverseSteps on the loop state
\* s = [h, res, i, stopped, steps, stepId]; stopped is set by the break.
\* For the square matrices it is run on, the 2n columns it scales and
\* eliminates are the whole row.
TraceInverseStep(s) ==
    TraceInversePivot(TraceSwap(s, s.i, FindMaxRow(s.h.rows, s.h.mats[s.res], s.i, s.i, s.i + 1)))

RECURSIVE TraceInverseLoop(_)
TraceInverseLoop(s) ==
    IF ~s.stopped /\ s.i < Len(s.h.mats[s.res])
    THEN TraceInverseLoop(TraceInverseStep(s))
    ELSE s

\* generateInverseSteps(matrix) on the heap: the final loop state; .steps is
\* the returned trace.  The step after the loop is pushed however the loop
\* ended.
generateInverseSteps(h, m) ==
    LET augmented == NewMatrix(h, Augment(MatrixOf(h, m)))
        first == Snapshot(augmented.h, augmented.ref)
    IN  PushSnapshot(
            TraceInverseLoop([h |-> first.h, res |-> augmented.ref, i |-> 0,
                              stopped |-> FALSE,
                              steps |-> <<Step(0, "augmented", first.ref, -1, -1,
                                               MatrixOf(augmented.h, augmented.ref))>>,
                              stepId |-> 1]),
            "complete", -1, -1)

\* const L = createMatrix(n, n, 0) with L[i][i] = 1 for every i
UnitLower(n) == [i \in 1..n |-> [j \in 1..n |-> IF i = j THEN One ELSE Zero]]

\* U[i][j] -= factor * U[k][j] for j = k .. n - 1 (columns from 0)
EliminateFrom(row, factor, pivotRowContents, k) ==
    [j \in 1..Len(row) |->
        IF j >= k + 1 THEN Sub(row[j], Mul(factor, pivotRowContents[j])) ELSE row[j]]

\* break: only the loop over the rows is left.
BreakFromRows(s) == s

\* return steps: the generation is over.
ReturnSteps(s) == [s EXCEPT !.stopped = TRUE]

\* L[i][k] = factor, then the elimination of row i of U.
TraceLUEliminate(s, i, factor) ==
    WriteRow([s EXCEPT !.h.rows[s.h.mats[s.L][i + 1]][s.k + 1] = factor], i,
             EliminateFrom(RowAt(s, i), factor, RowAt(s, s.k), s.k))

\* The inner loop of generateLUSteps for column s.k, from row i on, on the
\* loop state s = [h, res, L, k, stopped, steps, stepId]: res is U.  Every
\* step holds U itself.
RECURSIVE TraceLURows(_, _)
TraceLURows(s, i) ==
    IF i >= Len(s.h.mats[s.res]) THEN s
    ELSE IF BelowTol(RowAt(s, s.k)[s.k + 1])
    THEN ReturnSteps(PushReference(s, "zeroPivot", -1, -1))
    ELSE TraceLURows(
             PushReference(TraceLUEliminate(s, i, Div(RowAt(s, i)[s.k + 1],
                                                      RowAt(s, s.k)[s.k + 1])),
                           "eliminate", i, s.k),
             i + 1)

\* The outer loop of generateLUSteps: for (let k = 0; k < n - 1; k++), left
\* by the return of the zero-pivot step.
RECURSIVE TraceLULoop(_)
TraceLULoop(s) ==
    IF s.stopped \/ s.k >= Len(s.h.mats[s.res]) - 1 THEN s
    ELSE TraceLULoop([TraceLURows(PushReference(s, "column", -1, -1), s.k + 1)
                          EXCEPT !.k = @ + 1])

\* The step after the loops, reached unless the zero-pivot step returned.
TraceLUComplete(s) == IF s.stopped THEN s ELSE PushReference(s, "complete", -1, -1)

\* generateLUSteps(matrix) on the heap: the final loop state; .steps is the
\* returned trace.
generateLUSteps(h, m) ==
    LET A == MatrixOf(h, m)
        n == NumRows(A)
    IN  IF n # NumCols(A)
        THEN [h |-> h, res |-> m, stopped |-> TRUE, stepId |-> 1,
              steps |-> <<Step(0, "notSquare", m, -1, -1, A)>>]
        ELSE LET L == NewMatrix(h, UnitLower(n))
                 U == CopyMatrix(L.h, m)
             IN  TraceLUComplete(
                     TraceLULoop([h |-> U.h, res |-> U.ref, L |-> L.ref, k |-> 0,
                                  stopped |-> FALSE,
                                  steps |-> <<Step(0, "initialize", m, -1, -1, A)>>,
                                  stepId |-> 1]))

\* steps.push({ id: stepId++, ..., matrix: M }) for a matrix M built for the
\* step.
PushNew(s, kind, M) == Push(s, kind, NewMatrix(s.h, M), -1, -1)

\* The loop state of a generator that starts with let stepId = 0 and no
\* step, for the input m.
NoSteps(h, m) == [h |-> h, res |-> m, stopped |-> FALSE, steps |-> <<>>, stepId |-> 0]

\* [[`${a}-lambda`, formatNumber(b)], [formatNumber(c), `${d}-lambda`]], the
\* texts kept as the numbers they are made from.
CharMatrix(A) ==
    << <<[text |-> "minusLambda", of |-> A[1][1]], [text |-> "formatNumber", of |-> A[1][2]]>>,
       <<[text |-> "formatNumber", of |-> A[2][1]], [text |-> "minusLambda", of |-> A[2][2]]>> >>

\* trace * trace - 4 * det of generateEigenvalueSteps
EigenDiscriminant(A) ==
    Sub(Mul(Add(A[1][1], A[2][2]), Add(A[1][1], A[2][2])),
        Mul(Num(4), Sub(Mul(A[1][1], A[2][2]), Mul(A[1][2], A[2][1]))))

\* (trace + sign * Math.sqrt(discriminant)) / 2
EigenLambda(A, sign) == Root(Add(A[1][1], A[2][2]), sign, Sqrt(EigenDiscriminant(A)))

\* [[a - lambda, b], [c, d - lambda]], the differences kept as their parts.
EigenMatrix(A, lambda) ==
    << <<[minuend |-> A[1][1], less |-> lambda], A[1][2]>>,
       <<A[2][1], [minuend |-> A[2][2], less |-> lambda]>> >>

\* The steps of the eigenvalues and of the two eigenvectors.
EigenvalueFound(s, A) ==
    PushNew(PushNew(PushReference(s, "eigenvalues", -1, -1),
                    "eigenvector", EigenMatrix(A, EigenLambda(A, 1))),
            "eigenvector", EigenMatrix(A, EigenLambda(A, -1)))

\* if (discriminant >= 0)
EigenRoots(s, A) == IF NonNegative(EigenDiscriminant(A)) THEN EigenvalueFound(s, A) ELSE s

\* if (matrix.length === 2)
EigenTwoByTwo(s, A) ==
    IF NumRows(A) = 2
    THEN EigenRoots(PushReference(PushNew(s, "characteristic", CharMatrix(A)),
                                  "polynomial", -1, -1), A)
    ELSE s

\* generateEigenvalueSteps(matrix) on the heap: the final loop state.
generateEigenvalueSteps(h, m) ==
    IF Len(h.mats[m]) # Len(h.rows[h.mats[m][1]])
    THEN ReturnSteps(PushReference(NoSteps(h, m), "notSquare", -1, -1))
    ELSE PushReference(EigenTwoByTwo(PushReference(NoSteps(h, m), "original", -1, -1),
                                     MatrixOf(h, m)),
                       "complete", -1, -1)

\* generateSVDSteps(matrix) on the heap: the final loop state.
SVDProducts(s, A) ==
    PushNew(PushNew(s, "ata", multiplyMatrices(transpose(A).val, A).val),
            "aat", multiplyMatrices(A, transpose(A).val).val)

generateSVDSteps(h, m) ==
    PushReference(SVDProducts(PushReference(NoSteps(h, m), "original", -1, -1), MatrixOf(h, m)),
                  "components", -1, -1)

\* ------------------------------------------------- eigen visualisations
\* The non-negative integers whose square is the integer v.
IntegerRoots(v) == {r \in 0..v : r * r = v}

\* x is the square of a non-negative integer.
IsIntegerSquare(x) ==
    /\ x[1] >= 0 /\ x[2] = 1 /\ x[3] >= 0 /\ x[4] = 0
    /\ IntegerRoots(x[1] * Pow10(x[3])) # {}

\* Math.sqrt(x) for x the square of a non-negative integer.
SqrtOfSquare(x) == Num(CHOOSE r \in IntegerRoots(x[1] * Pow10(x[3])) : TRUE)

\* [v[0] / norm * times, v[1] / norm * times] with
\* norm = Math.sqrt(v[0]**2 + v[1]**2), kept as its parts.
Normalized(v, times) == [of |-> v, over |-> Sqrt(SumOfSquares(v)), times |-> times]

\* (trace + sign * Math.sqrt(discriminant)) / 2 for a discriminant that is
\* the square of an integer.
Lambda(trace, sign, discriminant) ==
    Div(Add(trace, Mul(Num(sign), SqrtOfSquare(discriminant))), Num(2))

\* The eigenvector that drawEigenvalues derives for lambda, the first or the
\* second basis vector (basis) when both off-diagonal entries are negligible.
DrawnEigenvector(A, lambda, basis) ==
    IF AboveTol(A[1][2]) THEN <<Sub(lambda, A[2][2]), A[1][2]>>
    ELSE IF AboveTol(A[2][1]) THEN <<A[2][1], Sub(lambda, A[1][1])>>
    ELSE basis

\* drawEigenvalues for eigenMatrix = A: the eigenvalues and the normalized
\* eigenvectors it draws, nothing for a negative discriminant.
drawEigenvalues(A) ==
    LET trace == Add(A[1][1], A[2][2])
        det == Sub(Mul(A[1][1], A[2][2]), Mul(A[1][2], A[2][1]))
        discriminant == Sub(Mul(trace, trace), Mul(Num(4), det))
    IN  IF NonNegative(discriminant)
        THEN Value("eigen",
                   [lambda |-> <<Lambda(trace, 1, discriminant), Lambda(trace, -1, discriminant)>>,
                    v |-> <<Normalized(DrawnEigenvector(A, Lambda(trace, 1, discriminant),
                                                        <<One, Zero>>), 2),
                            Normalized(DrawnEigenvector(A, Lambda(trace, -1, discriminant),
                                                        <<Zero, One>>), 2)>>])
        ELSE NoResult

\* The eigenvector that calculatePCA derives for lambda.
PCAEigenvector(covMatrix, lambda, basis) ==
    IF ~IsZero(covMatrix[1][2]) THEN <<Sub(lambda, covMatrix[2][2]), covMatrix[1][2]>>
    ELSE basis

\* calculatePCA from its covariance matrix on: the eigenvalues and the
\* eigenvectors returned, null for a negative discriminant.
calculatePCA(covMatrix) ==
    LET trace == Add(covMatrix[1][1], covMatrix[2][2])
        det == Sub(Mul(covMatrix[1][1], covMatrix[2][2]),
                   Mul(covMatrix[1][2], covMatrix[2][1]))
        discriminant == Sub(Mul(trace, trace), Mul(Num(4), det))
    IN  IF discriminant[1] < 0 THEN NoResult
        ELSE Value("eigen",
                   [lambda |-> <<Lambda(trace, 1, discriminant), Lambda(trace, -1, discriminant)>>,
                    v |-> <<Normalized(PCAEigenvector(covMatrix, Lambda(trace, 1, discriminant),
                                                      <<One, Zero>>), 1),
                            Normalized(PCAEigenvector(covMatrix, Lambda(trace, -1, discriminant),
                                                      <<Zero, One>>), 1)>>])

\* ------------------------------------------------------------------- state
VARIABLES
    mats,    \* heap: the outer arrays, each a sequence of row ids
    rows,    \* heap: the rows and vectors, each a sequence of numbers
    a, b,    \* the matrix operands (references into mats)
    va, vb,  \* the vector operands (references into rows)
    scalar,  \* the scalar operand
    operation,        \* StepByStepMode: the traced operation, 'rref' or 'inverse'
    activeAnimation,  \* InteractiveAnimations: the selected animation
    functionType,     \* AdvancedCalculators: the selected matrix function
    powerValue,       \* AdvancedCalculators: the exponent of the matrix power
    op,      \* the operation that was called, "none" before the call
    out,     \* what the call returned or threw
    before,  \* the contents of the operands when the call was made
    loop,    \* rref in progress: its working matrix and its cursors
    component,    \* the mounted step player, "none" when there is none
    inputMatrix,  \* the matrix whose trace the step player shows
    steps,        \* the trace of the step player, as the kinds of its steps
    currentStep,  \* the index (from 0) of the step shown
    isPlaying,    \* whether auto-play is on
    timer,        \* the pending timer of the auto-play effect, or "none"
    currentQuiz,           \* PracticeSection: the points of the quiz's questions
    currentQuestionIndex,  \* the index (from 0) of the question shown
    selectedAnswer,        \* "null", or whether the selected option is right
    showResult,            \* the feedback on the submitted answer is shown
    quizComplete,          \* the completion screen is shown
    score,                 \* the points of the quiz so far
    correctAnswers,        \* the number of correct answers so far
    userProgress,          \* the stored progress: xp and totalScore
    pendingTimeout,        \* the pending timeouts of submitAnswer (none or
                           \* one), each as what its closure holds
    answeredCorrectly      \* the questions of the quiz answered correctly
                           \* (kept for the claims; the code has no such state)

selections == <<operation, activeAnimation, functionType, powerValue>>

playback == <<component, inputMatrix, steps, currentStep, isPlaying, timer>>

practice ==
    <<currentQuiz, currentQuestionIndex, selectedAnswer, showResult, quizComplete, score,
      correctAnswers, userProgress, pendingTimeout, answeredCorrectly>>

vars ==
    <<mats, rows, a, b, va, vb, scalar, selections, op, out, before, loop, playback, practice>>

Heap == [mats |-> mats, rows |-> rows]

\* The contents of the operands.
InputA == MatrixOf(Heap, a)
InputB == MatrixOf(Heap, b)
InputU == rows[va]
InputV == rows[vb]
Inputs == [a |-> InputA, b |-> InputB, va |-> InputU, vb |-> InputV]

\* ------------------------------------------------------------------ inputs
IntMatrices(m, n, lo, hi) == [1..m -> [1..n -> {Num(k) : k \in lo..hi}]]
IntVectors(n, lo, hi) == [1..n -> {Num(k) : k \in lo..hi}]

Ones(n) == [i \in 1..n |-> One]

\* The operands of the unary matrix operations: every matrix of these shapes
\* with entries in -MaxEntry..MaxEntry for the shapes of up to four entries
\* and in 0..MaxEntry for the larger ones.
LinShapes == {<<1, 1>>, <<1, 2>>, <<2, 1>>, <<2, 2>>, <<2, 3>>, <<3, 2>>, <<3, 3>>}

LinInputs ==
    UNION {IntMatrices(sh[1], sh[2], IF sh[1] * sh[2] <= 4 THEN -MaxEntry ELSE 0, MaxEntry) :
               sh \in LinShapes}

\* The operands of the binary matrix operations.
ArithShapes == {<<1, 2>>, <<2, 1>>, <<2, 2>>}

ArithInputs == UNION {IntMatrices(sh[1], sh[2], 0, MaxEntry) : sh \in ArithShapes}

\* The operands of the vector operations.
VectorInputsU == IntVectors(2, -MaxEntry, MaxEntry) \cup IntVectors(3, -MaxEntry, MaxEntry)
VectorInputsV == IntVectors(2, 0, MaxEntry) \cup IntVectors(3, 0, MaxEntry)

DefaultMatrix == << <<One, Num(2)>>, <<Num(3), Num(4)>> >>
DefaultVector == <<One, Zero, Num(2)>>
DefaultScalar == Norm(-3, 2, 0)

\* The selections of the components.
Selected(o, anim, f, p) ==
    /\ operation = o
    /\ activeAnimation = anim
    /\ functionType = f
    /\ powerValue = p

\* No call of rref is in progress: there is no working matrix.
NoLoop == [res |-> 0, pivotRow |-> 0, col |-> 0]

\* The state after the operands A, B, U, V and c have been built.
\* No step player is mounted.
NoPlayback ==
    /\ component = "none"
    /\ inputMatrix = <<>>
    /\ steps = <<>>
    /\ currentStep = 0
    /\ isPlaying = FALSE
    /\ timer = "none"

\* The stored progress with the experience points xp and the total score
\* totalScore (level, title and the per-topic records are left out).
Progress(xp, totalScore) == [xp |-> xp, totalScore |-> totalScore]

\* PracticeSection as it is mounted with the stored progress p: no quiz.
NoQuiz(p) ==
    /\ currentQuiz = <<>>
    /\ currentQuestionIndex = 0
    /\ selectedAnswer = "null"
    /\ showResult = FALSE
    /\ quizComplete = FALSE
    /\ score = 0
    /\ correctAnswers = 0
    /\ userProgress = p
    /\ pendingTimeout = <<>>
    /\ answeredCorrectly = {}

\* The operands of the calculators and no call made.
Objects(A, B, U, V, c) ==
    /\ rows = A \o B \o <<U, V>>
    /\ mats = << [i \in 1..Len(A) |-> i], [i \in 1..Len(B) |-> Len(A) + i] >>
    /\ a = 1
    /\ b = 2
    /\ va = Len(A) + Len(B) + 1
    /\ vb = Len(A) + Len(B) + 2
    /\ scalar = c
    /\ op = "none"
    /\ out = NoResult
    /\ before = <<>>
    /\ loop = NoLoop

Operands(A, B, U, V, c) ==
    /\ NoPlayback
    /\ NoQuiz(Progress(0, 0))
    /\ Objects(A, B, U, V, c)

\* The operands with the selections the components start with.
InitWith(A, B, U, V, c) ==
    /\ Operands(A, B, U, V, c)
    /\ Selected("rref", "gaussian", "exp", 2)

Init ==
    \/ \E A \in LinInputs :
           InitWith(A, DefaultMatrix, DefaultVector, Ones(Len(A)), DefaultScalar)
    \/ \E A \in ArithInputs, B \in ArithInputs :
           InitWith(A, B, DefaultVector, Ones(Len(A)), DefaultScalar)
    \/ \E U \in VectorInputsU, V \in VectorInputsV :
           InitWith(DefaultMatrix, DefaultMatrix, U, V, DefaultScalar)

\* ----------------------------------------------------------------- actions
\* A call of operation name: the operands stay where they are, the heap and
\* the result become h and r.
Call(name, h, r) ==
    /\ op = "none"
    /\ op' = name
    /\ before' = Inputs
    /\ mats' = h.mats
    /\ rows' = h.rows
    /\ out' = r
    /\ UNCHANGED <<a, b, va, vb, scalar, selections, loop, playback, practice>>

\* A call of a trace generator that ended in the loop state s.
CallTrace(name, s) == Call(name, s.h, Value("steps", s.steps))

\* A call of a function that builds its result with map: r is an error, a
\* number, or the contents of the new matrix or vector it returns.
CallPure(name, r) ==
    /\ op = "none"
    /\ IF r.kind = "matrix"
       THEN LET n == NewMatrix(Heap, r.val) IN Call(name, n.h, Value("matrix", n.ref))
       ELSE IF r.kind = "vector"
       THEN LET n == NewVector(Heap, r.val) IN Call(name, n.h, Value("vector", n.ref))
       ELSE Call(name, Heap, r)

CallAddMatrices == CallPure("addMatrices", addMatrices(InputA, InputB))

CallSubtractMatrices == CallPure("subtractMatrices", subtractMatrices(InputA, InputB))

CallMultiplyMatrices == CallPure("multiplyMatrices", multiplyMatrices(InputA, InputB))

CallScalarMultiply == CallPure("scalarMultiply", scalarMultiply(InputA, scalar))

CallTranspose == CallPure("transpose", transpose(InputA))

CallDeterminant == CallPure("determinant", determinant(InputA))

CallInverse == CallPure("inverse", inverse(InputA))

CallRref ==
    LET s == rref(Heap, a) IN Call("rref", s.h, Value("matrix", s.res))

CallRank ==
    LET s == rref(Heap, a)
    IN  Call("rank", s.h, Value("number", Num(RankOf(MatrixOf(s.h, s.res)))))

CallDotProduct == CallPure("dotProduct", dotProduct(InputU, InputV))

CallCrossProduct == CallPure("crossProduct", crossProduct(InputU, InputV))

CallVectorMagnitude == CallPure("vectorMagnitude", vectorMagnitude(InputU))

CallNormalizeVector == CallPure("normalizeVector", normalizeVector(InputU))

CallAngleBetweenVectors == CallPure("angleBetweenVectors", angleBetweenVectors(InputU, InputV))

\* solveSystem with the RREF method: the length test, then solveByRREF.
SolveByRREF ==
    IF Len(InputA) # Len(InputV)
    THEN Call("solveByRREF", Heap, Error("DimensionMismatch"))
    ELSE LET augmented == NewMatrix(Heap, AugmentWith(InputA, InputV))
             s == rref(augmented.h, augmented.ref)
         IN  Call("solveByRREF", s.h, Value("solution", SolveFromRref(MatrixOf(s.h, s.res))))

\* solveSystem with the inverse method: the length test, then solveByInverse.
SolveByInverse ==
    IF Len(InputA) # Len(InputV)
    THEN Call("solveByInverse", Heap, Error("DimensionMismatch"))
    ELSE Call("solveByInverse", Heap, solveByInverse(InputA, InputV))

Next ==
    \/ CallAddMatrices
    \/ CallSubtractMatrices
    \/ CallMultiplyMatrices
    \/ CallScalarMultiply
    \/ CallTranspose
    \/ CallDeterminant
    \/ CallInverse
    \/ CallRref
    \/ CallRank
    \/ CallDotProduct
    \/ CallCrossProduct
    \/ CallVectorMagnitude
    \/ CallNormalizeVector
    \/ CallAngleBetweenVectors
    \/ SolveByRREF
    \/ SolveByInverse

Spec == Init /\ [][Next]_vars


\* --------------------------------------------- inputs around the tolerance
\* Systems whose rows are an integer pattern times a power of ten, so that
\* entries fall on both sides of 1e-10: each row of [A|b] is
\* (pattern, t) * 10^k for a pattern, a right-hand side t in {0, 1} and a
\* scale k.
TolScales == {-11, 0, 6}

TolPatterns(n) ==
    IF n = 2 THEN {<<1, 0>>, <<0, 1>>, <<9, 20>>, <<9, -20>>}
    ELSE {<<1, 0, 0>>, <<0, 1, 0>>, <<0, 0, 1>>}

ScaledRow(p, k) == [j \in 1..Len(p) |-> Sci(p[j], k)]

TolRows(n) == {ScaledRow(Append(p, t), k) : p \in TolPatterns(n), t \in {0, 1}, k \in TolScales}

TolSystems == [1..2 -> TolRows(2)] \cup [1..3 -> TolRows(2)] \cup [1..3 -> TolRows(3)]

\* The coefficient part and the right-hand side of an augmented matrix.
Coefficients(S) == [i \in 1..Len(S) |-> SubSeq(S[i], 1, Len(S[i]) - 1)]
RightHandSide(S) == [i \in 1..Len(S) |-> S[i][Len(S[i])]]

InitTol ==
    \E S \in TolSystems :
        InitWith(Coefficients(S), DefaultMatrix, DefaultVector, RightHandSide(S), DefaultScalar)

NextTol ==
    \/ CallDeterminant
    \/ CallInverse
    \/ CallRref
    \/ CallRank
    \/ SolveByRREF
    \/ SolveByInverse

SpecTol == InitTol /\ [][NextTol]_vars


\* ------------------------------------------------------------- step traces
\* StepByStepMode, generateSteps with operation 'rref': the copy of the
\* input, the step pushed to the list that is dropped, generateRREFSteps.
GenerateRREFSteps ==
    /\ op = "none"
    /\ operation = "rref"
    /\ LET currentMatrix == CopyMatrix(Heap, a)
           dropped == Snapshot(currentMatrix.h, currentMatrix.ref)
       IN  CallTrace("generateRREFSteps", generateRREFSteps(dropped.h, currentMatrix.ref))

\* StepByStepMode, generateSteps with operation 'inverse'.
GenerateInverseSteps ==
    /\ op = "none"
    /\ operation = "inverse"
    /\ LET currentMatrix == CopyMatrix(Heap, a)
           dropped == Snapshot(currentMatrix.h, currentMatrix.ref)
       IN  CallTrace("generateInverseSteps", generateInverseSteps(dropped.h, currentMatrix.ref))

\* InteractiveAnimations, the effect on [activeAnimation, inputMatrix] with
\* the animation 'gaussian'.
GenerateGaussianSteps ==
    /\ op = "none"
    /\ activeAnimation = "gaussian"
    /\ CallTrace("generateGaussianSteps", generateGaussianSteps(Heap, a))

\* InteractiveAnimations, the effect with the animation 'lu'.
GenerateLUSteps ==
    /\ op = "none"
    /\ activeAnimation = "lu"
    /\ CallTrace("generateLUSteps", generateLUSteps(Heap, a))

\* InteractiveAnimations, the effect with the animation 'eigenvalue'.
GenerateEigenvalueSteps ==
    /\ op = "none"
    /\ activeAnimation = "eigenvalue"
    /\ CallTrace("generateEigenvalueSteps", generateEigenvalueSteps(Heap, a))

\* InteractiveAnimations, the effect with the animation 'svd'.
GenerateSVDSteps ==
    /\ op = "none"
    /\ activeAnimation = "svd"
    /\ CallTrace("generateSVDSteps", generateSVDSteps(Heap, a))

\* Matrices whose rows have one non-zero entry each, 1, 2 or u: a pivot can
\* be within 1e-10 of 1 without being 1.
NearOneRows(n) ==
    {[j \in 1..n |-> IF j = p THEN x ELSE Zero] : p \in 1..n, x \in {One, Num(2), NearOne}}

NearOneInputs == [1..2 -> NearOneRows(2)] \cup [1..3 -> NearOneRows(3)]

\* The coefficient matrices of the systems around the tolerance.
TolInputs == {Coefficients(S) : S \in TolSystems}

TraceInputs == LinInputs \cup TolInputs \cup NearOneInputs

\* The traced inverse is opened on square matrices.
InitTrace ==
    \E A \in TraceInputs :
        /\ Operands(A, DefaultMatrix, DefaultVector, Ones(Len(A)), DefaultScalar)
        /\ \/ Selected("rref", "gaussian", "exp", 2)
           \/ Selected(IF NumRows(A) = NumCols(A) THEN "inverse" ELSE "rref", "lu", "exp", 2)
           \/ A \in LinInputs /\ Selected("rref", "eigenvalue", "exp", 2)
           \/ A \in LinInputs /\ Selected("rref", "svd", "exp", 2)

NextTrace ==
    \/ GenerateRREFSteps
    \/ GenerateInverseSteps
    \/ GenerateGaussianSteps
    \/ GenerateLUSteps
    \/ GenerateEigenvalueSteps
    \/ GenerateSVDSteps

SpecTrace == InitTrace /\ [][NextTrace]_vars

\* ------------------------------------------------------- rref, step by step
\* The loop state of the call of rref in progress.
LoopState == [h |-> Heap, res |-> loop.res, pivotRow |-> loop.pivotRow, col |-> loop.col]

\* The call in progress reaches the loop state s.
Reach(s) ==
    /\ mats' = s.h.mats
    /\ rows' = s.h.rows
    /\ loop' = [res |-> s.res, pivotRow |-> s.pivotRow, col |-> s.col]
    /\ UNCHANGED <<a, b, va, vb, scalar, selections, op, out, before, playback, practice>>

\* rref(matrix) is entered: the copy, pivotRow = 0 and col = 0.
RrefEnter ==
    /\ op = "none"
    /\ loop = NoLoop
    /\ Reach(RrefStart(RrefCopy(Heap, a)))

\* One iteration of the for loop.
RrefIterate ==
    /\ op = "none"
    /\ loop # NoLoop
    /\ RrefContinues(LoopState)
    /\ Reach(RrefColumn(LoopState))

\* The loop test fails: return result.
RrefReturn ==
    /\ op = "none"
    /\ loop # NoLoop
    /\ ~RrefContinues(LoopState)
    /\ Call("rref", Heap, Value("matrix", loop.res))

InitRref ==
    \E A \in LinInputs \cup TolInputs :
        InitWith(A, DefaultMatrix, DefaultVector, Ones(Len(A)), DefaultScalar)

NextRref ==
    \/ RrefEnter
    \/ RrefIterate
    \/ RrefReturn

SpecRref == InitRref /\ [][NextRref]_vars


\* ---------------------------------------------------- advanced calculators
\* A call that ended with the heap and the result of c.
CallResult(name, c) == Call(name, c.h, c.r)

\* calculate with the polynomial calculator active.
CalculateCharacteristicPolynomial ==
    Call("calculateCharacteristicPolynomial", Heap, calculateCharacteristicPolynomial(InputA))

\* calculate with the matrix function calculator active.
CalculateMatrixFunction ==
    CallResult("calculateMatrixFunction",
               calculateMatrixFunction(Heap, a, functionType, powerValue))

\* The largest exponent of the matrix power.
MaxPower == 3

\* The operands of the matrix power and of the characteristic polynomial.
PowerShapes == {<<1, 1>>, <<2, 2>>, <<2, 3>>, <<3, 3>>}

PowerInputs ==
    UNION {IntMatrices(sh[1], sh[2], IF sh[1] * sh[2] <= 4 THEN -MaxEntry ELSE 0, MaxEntry) :
               sh \in PowerShapes}

\* The operands of the series: square matrices with zeros on and below, or
\* on and above, the diagonal, whose powers from the n-th on are zero, so
\* that every term of the series is an exact number of the model; and the
\* matrices of PowerInputs that are not square.
StrictlyTriangular(n) ==
    {A \in IntMatrices(n, n, -MaxEntry, MaxEntry) :
        \/ \A i, j \in 1..n : i >= j => IsZero(A[i][j])
        \/ \A i, j \in 1..n : i <= j => IsZero(A[i][j])}

\* The n x n matrix with ones just above the diagonal: its k-th power has
\* its ones k places above the diagonal and is not zero for k < n, so the
\* terms of a series fall on entries of their own.
ShiftMatrix(n) == [i \in 1..n |-> [j \in 1..n |-> IF j = i + 1 THEN One ELSE Zero]]

\* The largest shift matrix: its eleventh power, the first that the series
\* leave out, is not zero.
MaxShift == 12

SeriesInputs ==
    StrictlyTriangular(1) \cup StrictlyTriangular(2) \cup StrictlyTriangular(3)
        \cup {ShiftMatrix(n) : n \in 4..MaxShift}
        \cup {A \in PowerInputs : NumRows(A) # NumCols(A)}

InitAdvanced ==
    \/ \E A \in PowerInputs, p \in -1..MaxPower :
           /\ Operands(A, DefaultMatrix, DefaultVector, Ones(Len(A)), DefaultScalar)
           /\ Selected("rref", "gaussian", "power", p)
    \/ \E A \in SeriesInputs, f \in {"exp", "sin", "cos"} :
           /\ Operands(A, DefaultMatrix, DefaultVector, Ones(Len(A)), DefaultScalar)
           /\ Selected("rref", "gaussian", f, 2)

NextAdvanced ==
    \/ CalculateCharacteristicPolynomial
    \/ CalculateMatrixFunction

SpecAdvanced == InitAdvanced /\ [][NextAdvanced]_vars



\* ---------------------------------------------------- eigen visualisations
\* A redraw of the eigen visualisation with eigenMatrix = a.
DrawEigenvalues == Call("drawEigenvalues", Heap, drawEigenvalues(InputA))

\* The principal components of points whose covariance matrix is a.
CalculatePCA ==
    /\ InputA[1][2] = InputA[2][1]
    /\ InputA[1][1][1] >= 0
    /\ InputA[2][2][1] >= 0
    /\ DeterminantOf(InputA)[1] >= 0
    /\ Call("calculatePCA", Heap, calculatePCA(InputA))

\* The 2x2 integer matrices with entries in -MaxEntry-1..MaxEntry+1 whose
\* discriminant is negative or the square of an integer, so that the square
\* root drawn from it is a number of the model.
EigenInputs ==
    {A \in IntMatrices(2, 2, -MaxEntry - 1, MaxEntry + 1) :
        EigenDiscriminant(A)[1] < 0 \/ IsIntegerSquare(EigenDiscriminant(A))}

InitEigen ==
    \E A \in EigenInputs :
        InitWith(A, DefaultMatrix, DefaultVector, Ones(Len(A)), DefaultScalar)

NextEigen ==
    \/ DrawEigenvalues
    \/ CalculatePCA

SpecEigen == InitEigen /\ [][NextEigen]_vars

\* ---------------------------------------------------------- step playback
\* The kinds of the steps of the trace s, in order.
KindsOf(s) == [i \in 1..Len(s.steps) |-> s.steps[i].kind]

\* generateSteps of StepByStepMode on the copy c of the matrix prop.
GenerateSteps(operationProp, c) ==
    IF operationProp = "rref"
    THEN generateRREFSteps(Snapshot(c.h, c.ref).h, c.ref)
    ELSE generateInverseSteps(Snapshot(c.h, c.ref).h, c.ref)

\* The switch of the trace-regeneration effect of InteractiveAnimations on
\* the matrix object n.
GenerateAnimation(animation, n) ==
    CASE animation = "gaussian" -> generateGaussianSteps(n.h, n.ref)
      [] animation = "eigenvalue" -> generateEigenvalueSteps(n.h, n.ref)
      [] animation = "lu" -> generateLUSteps(n.h, n.ref)
      [] animation = "svd" -> generateSVDSteps(n.h, n.ref)

\* The trace that the player `player` holds for the matrix M.
StepsOf(player, operationProp, animation, M) ==
    IF player = "StepByStepMode"
    THEN KindsOf(GenerateSteps(operationProp, CopyMatrix(NewMatrix(EmptyHeap, M).h, 1)))
    ELSE KindsOf(GenerateAnimation(animation, NewMatrix(EmptyHeap, M)))

\* The dependencies [isPlaying, currentStep, steps.length] of the auto-play
\* effect differ from those of the last render.
DepsChanged(step, playing, st) ==
    <<playing, step, Len(st)>> # <<isPlaying, currentStep, Len(steps)>>

\* if (isPlaying && currentStep < steps.length - 1) of the auto-play effects
KeepsPlaying(step, playing, st) == playing /\ step < Len(st) - 1

\* The render that follows the state updates currentStep = step,
\* isPlaying = playing, steps = st, and the auto-play effect after it.  When
\* its dependencies changed the effect clears its timer and starts a new one
\* if playback goes on; the effect of InteractiveAnimations otherwise calls
\* setIsPlaying(false), that of StepByStepMode does nothing.
Render(step, playing, st) ==
    /\ currentStep' = step
    /\ steps' = st
    /\ isPlaying' = IF component = "InteractiveAnimations" /\ DepsChanged(step, playing, st)
                    THEN KeepsPlaying(step, playing, st)
                    ELSE playing
    /\ timer' = IF ~DepsChanged(step, playing, st) THEN timer
                ELSE IF ~KeepsPlaying(step, playing, st) THEN "none"
                ELSE IF component = "StepByStepMode" THEN "interval"
                ELSE "timeout"

\* The render with the step reset lost.
RegenerateKeepingStep(st) == Render(currentStep, FALSE, st)

\* setSteps(newSteps); setCurrentStep(0); setIsPlaying(false)
Regenerate(st) == Render(0, FALSE, st)

\* An event of the player named name, which leaves the calculators alone
\* and the selection activeAnimation = animation, inputMatrix = M behind.
Event(name, animation, M) ==
    /\ component # "none"
    /\ op' = name
    /\ activeAnimation' = animation
    /\ inputMatrix' = M
    /\ UNCHANGED <<mats, rows, a, b, va, vb, scalar, operation, functionType, powerValue,
                   out, before, loop, component, practice>>

\* An event that changes neither the animation nor the matrix.
Control(name) == Event(name, activeAnimation, inputMatrix)

\* nextStep; its button is disabled on the last step.
NextStep ==
    /\ currentStep < Len(steps) - 1
    /\ Control("nextStep")
    /\ Render(currentStep + 1, isPlaying, steps)

\* prevStep; its button is disabled on the first step.
PrevStep ==
    /\ currentStep > 0
    /\ Control("prevStep")
    /\ Render(currentStep - 1, isPlaying, steps)

\* togglePlay of StepByStepMode, play of InteractiveAnimations; the button
\* is disabled on the last step.
Play ==
    /\ ~isPlaying
    /\ currentStep < Len(steps) - 1
    /\ Control("play")
    /\ Render(currentStep, TRUE, steps)

\* togglePlay of StepByStepMode, pause of InteractiveAnimations, through
\* the same button.
Pause ==
    /\ isPlaying
    /\ currentStep < Len(steps) - 1
    /\ Control("pause")
    /\ Render(currentStep, FALSE, steps)

\* reset
Reset ==
    /\ Control("reset")
    /\ Render(0, FALSE, steps)

\* The timer of the auto-play effect fires.  The interval of StepByStepMode
\* stops playback when it finds the last step shown and advances otherwise;
\* the timeout of InteractiveAnimations advances.
Tick ==
    /\ timer # "none"
    /\ Control("tick")
    /\ IF timer = "interval" /\ currentStep >= Len(steps) - 1
       THEN Render(currentStep, FALSE, steps)
       ELSE Render(currentStep + 1, isPlaying, steps)

Animations == {"gaussian", "eigenvalue", "lu", "svd"}

\* setActiveAnimation(key) of InteractiveAnimations and the regeneration of
\* the trace.
SetActiveAnimation ==
    \E key \in Animations \ {activeAnimation} :
        /\ component = "InteractiveAnimations"
        /\ Event("setActiveAnimation", key, inputMatrix)
        /\ Regenerate(StepsOf(component, operation, key, inputMatrix))

\* The matrices of InteractiveAnimations' two example buttons.
Example3x3 ==
    << <<Num(2), Num(1), Num(3)>>, <<Num(1), Num(3), Num(2)>>, <<Num(3), Num(2), Num(1)>> >>
Example2x2 == << <<Num(1), Num(2)>>, <<Num(3), Num(4)>> >>

\* The matrices shown by a player: the examples and the 2x2 matrices with
\* entries in 0..MaxEntry.
PlaybackInputs == {Example3x3, Example2x2} \cup IntMatrices(2, 2, 0, MaxEntry)

\* setInputMatrix(newMatrix) of InteractiveAnimations and the regeneration of
\* the trace.
SetInputMatrix ==
    \E M \in PlaybackInputs \ {inputMatrix} :
        /\ component = "InteractiveAnimations"
        /\ Event("setInputMatrix", activeAnimation, M)
        /\ Regenerate(StepsOf(component, operation, activeAnimation, M))

\* A player mounted on the matrix M: its trace is there, the first step is
\* shown and nothing plays.
Mounted(player, M) ==
    /\ component = player
    /\ inputMatrix = M
    /\ steps = StepsOf(player, operation, activeAnimation, M)
    /\ currentStep = 0
    /\ isPlaying = FALSE
    /\ timer = "none"

InitPlayback ==
    /\ Objects(DefaultMatrix, DefaultMatrix, DefaultVector, DefaultVector, DefaultScalar)
    /\ NoQuiz(Progress(0, 0))
    /\ \/ \E M \in PlaybackInputs, o \in {"rref", "inverse"} :
              /\ Selected(o, "gaussian", "exp", 2)
              /\ Mounted("StepByStepMode", M)
       \/ /\ Selected("rref", "gaussian", "exp", 2)
          /\ Mounted("InteractiveAnimations", Example3x3)

NextPlayback ==
    \/ NextStep
    \/ PrevStep
    \/ Play
    \/ Pause
    \/ Reset
    \/ Tick
    \/ SetActiveAnimation
    \/ SetInputMatrix

SpecPlayback == InitPlayback /\ [][NextPlayback]_vars

\* --------------------------------------------------------------- practice
\* The points a question can carry.
Points == {5, 10}

\* The largest number of questions of a quiz of the model (the code cuts a
\* quiz at 10 questions).
MaxQuestions == 3

\* The quizzes, each the sequence of the points of its questions.
Quizzes == UNION {[1..n -> Points] : n \in 1..MaxQuestions}

\* No quiz is started once the stored experience has reached this.
MaxXP == 30

\* An event of PracticeSection named name, which touches nothing else.
Practice(name) ==
    /\ component = "none"
    /\ op' = name
    /\ UNCHANGED <<mats, rows, a, b, va, vb, scalar, selections, out, before, loop, playback>>

\* startQuiz(topicId), from the list of topics
StartQuiz ==
    \E questions \in Quizzes :
        /\ currentQuiz = <<>>
        /\ userProgress.xp < MaxXP
        /\ Practice("startQuiz")
        /\ currentQuiz' = questions
        /\ currentQuestionIndex' = 0
        /\ score' = 0
        /\ correctAnswers' = 0
        /\ quizComplete' = FALSE
        /\ showResult' = FALSE
        /\ selectedAnswer' = "null"
        /\ answeredCorrectly' = {}
        /\ UNCHANGED <<userProgress, pendingTimeout>>

\* A question of the quiz is on the screen.
QuestionShown == currentQuiz # <<>> /\ ~quizComplete

\* setSelectedAnswer(option), for an option that is the correct answer
\* ("right") or is not ("wrong")
SelectAnswer ==
    \E option \in {"right", "wrong"} :
        /\ QuestionShown
        /\ option # selectedAnswer
        /\ Practice("selectAnswer")
        /\ selectedAnswer' = option
        /\ UNCHANGED <<currentQuiz, currentQuestionIndex, showResult, quizComplete, score,
                       correctAnswers, userProgress, pendingTimeout, answeredCorrectly>>

\* What the callback of the timeout of submitAnswer holds of the render in
\* which the answer was submitted.
Closure ==
    [currentQuestionIndex |-> currentQuestionIndex,
     length |-> Len(currentQuiz),
     score |-> score,
     userProgress |-> userProgress]

\* The points of the question shown.
CurrentPoints == currentQuiz[currentQuestionIndex + 1]

\* submitAnswer; its button is disabled while no answer is selected and
\* while the result is shown.
SubmitAnswer ==
    /\ QuestionShown
    /\ selectedAnswer # "null"
    /\ ~showResult
    /\ Practice("submitAnswer")
    /\ score' = IF selectedAnswer = "right" THEN score + CurrentPoints ELSE score
    /\ correctAnswers' = IF selectedAnswer = "right" THEN correctAnswers + 1 ELSE correctAnswers
    /\ answeredCorrectly' = IF selectedAnswer = "right"
                            THEN answeredCorrectly \cup {currentQuestionIndex}
                            ELSE answeredCorrectly
    /\ showResult' = TRUE
    /\ pendingTimeout' = <<Closure>>
    /\ UNCHANGED <<currentQuiz, currentQuestionIndex, selectedAnswer, quizComplete, userProgress>>

\* completeQuiz() as the callback c calls it: score and userProgress are
\* those of c's render.
CompleteQuiz(c) ==
    /\ userProgress' = Progress(c.userProgress.xp + c.score, c.userProgress.totalScore + c.score)
    /\ quizComplete' = TRUE
    /\ UNCHANGED <<currentQuestionIndex, selectedAnswer, showResult>>

\* The timeout of submitAnswer fires, 2.5 s after the answer.
AnswerTimeout ==
    /\ pendingTimeout # <<>>
    /\ Practice("answerTimeout")
    /\ pendingTimeout' = <<>>
    /\ IF pendingTimeout[1].currentQuestionIndex < pendingTimeout[1].length - 1
       THEN /\ currentQuestionIndex' = pendingTimeout[1].currentQuestionIndex + 1
            /\ selectedAnswer' = "null"
            /\ showResult' = FALSE
            /\ UNCHANGED <<quizComplete, userProgress>>
       ELSE CompleteQuiz(pendingTimeout[1])
    /\ UNCHANGED <<currentQuiz, score, correctAnswers, answeredCorrectly>>

\* resetQuiz, from the completion screen or through 'Exit Quiz' (taken while
\* no timeout is pending).
ResetQuiz ==
    /\ currentQuiz # <<>>
    /\ pendingTimeout = <<>>
    /\ Practice("resetQuiz")
    /\ currentQuiz' = <<>>
    /\ currentQuestionIndex' = 0
    /\ score' = 0
    /\ correctAnswers' = 0
    /\ quizComplete' = FALSE
    /\ showResult' = FALSE
    /\ selectedAnswer' = "null"
    /\ answeredCorrectly' = {}
    /\ UNCHANGED <<userProgress, pendingTimeout>>

InitPractice ==
    /\ NoPlayback
    /\ Objects(DefaultMatrix, DefaultMatrix, DefaultVector, DefaultVector, DefaultScalar)
    /\ Selected("rref", "gaussian", "exp", 2)
    /\ \E xp \in {0, 20} : NoQuiz(Progress(xp, xp))

NextPractice ==
    \/ StartQuiz
    \/ SelectAnswer
    \/ SubmitAnswer
    \/ AnswerTimeout
    \/ ResetQuiz

SpecPractice == InitPractice /\ [][NextPractice]_vars

\* ------------------------------------------------------------------ claims
IsSquare(A) == NumRows(A) = NumCols(A)

\* The contents of the matrix a call returned.
OutMatrix == MatrixOf(Heap, out.val)

\* The sum of f[i] over the finite set S of indices.
RECURSIVE SumOver(_, _)
SumOver(S, f) ==
    IF S = {} THEN Zero
    ELSE LET i == CHOOSE k \in S : TRUE IN Add(f[i], SumOver(S \ {i}, f))

\* A with row r and column c removed (r, c counted from 1).
Without(A, r, c) ==
    [i \in 1..(NumRows(A) - 1) |->
        [j \in 1..(NumCols(A) - 1) |->
            A[IF i < r THEN i ELSE i + 1][IF j < c THEN j ELSE j + 1]]]

\* The first-row cofactor expansion of a square matrix, down to the single
\* entry of a 1x1 matrix.
RECURSIVE CofactorExpansion(_)
CofactorExpansion(A) ==
    IF NumRows(A) = 1 THEN A[1][1]
    ELSE SumOver(1..NumRows(A),
                 [i \in 1..NumRows(A) |->
                     Mul(IF i % 2 = 1 THEN A[1][i] ELSE Neg(A[1][i]),
                         CofactorExpansion(Without(A, 1, i)))])

\* C1: after a call of any of the fourteen core operations, whether it
\* returned or threw, the contents of every operand are what they were when
\* the call was made.
CoreOperations ==
    {"addMatrices", "subtractMatrices", "scalarMultiply", "multiplyMatrices", "transpose",
     "determinant", "inverse", "rref", "rank", "dotProduct", "crossProduct",
     "vectorMagnitude", "normalizeVector", "angleBetweenVectors"}

C1_InputsUnchanged == op \in CoreOperations => Inputs = before

\* rref has returned a matrix that differs from its operand: the copy was
\* swapped, scaled or eliminated.
C1_Witness == op = "rref" /\ OutMatrix # InputA /\ Inputs = before

\* C7: a failed matrix precondition is reported as an error, never as a
\* value: different shapes for addMatrices and subtractMatrices, cols(A) #
\* rows(B) for multiplyMatrices, a matrix that is not square for determinant
\* and inverse, and a square matrix with |det| < 1e-10 for inverse.
C7_PreconditionErrors ==
    /\ op \in {"addMatrices", "subtractMatrices"}
         /\ (NumRows(InputA) # NumRows(InputB) \/ NumCols(InputA) # NumCols(InputB))
       => out = Error("DimensionMismatch")
    /\ op = "multiplyMatrices" /\ NumCols(InputA) # NumRows(InputB)
       => out = Error("DimensionMismatch")
    /\ op \in {"determinant", "inverse"} /\ ~IsSquare(InputA)
       => out = Error("NotSquare")
    /\ op = "inverse" /\ IsSquare(InputA) /\ BelowTol(CofactorExpansion(InputA))
       => out = Error("Singular")

\* determinant has been called on a matrix that is not square and has
\* thrown.
C7_Witness == op = "determinant" /\ ~IsSquare(InputA) /\ IsError(out)

\* C8: determinant of a square matrix is its first-row cofactor expansion;
\* the single entry for 1x1 and a*d - b*c for 2x2.
C8_DeterminantIsCofactorExpansion ==
    op = "determinant" /\ IsSquare(InputA) =>
        /\ out = Value("number", CofactorExpansion(InputA))
        /\ NumRows(InputA) = 1 => out.val = InputA[1][1]
        /\ NumRows(InputA) = 2 =>
               out.val = Sub(Mul(InputA[1][1], InputA[2][2]), Mul(InputA[1][2], InputA[2][1]))

\* The determinant of a 3x3 matrix in which the second cofactor, the one
\* with the negative sign, counts.
C8_Witness ==
    /\ op = "determinant"
    /\ out.kind = "number"
    /\ NumRows(InputA) = 3
    /\ ~IsZero(InputA[1][2])
    /\ ~IsZero(CofactorExpansion(Without(InputA, 1, 2)))

\* C9: when the preconditions hold, addMatrices and subtractMatrices return
\* a matrix of the operands' shape with entries A[i][j] + B[i][j] and
\* A[i][j] - B[i][j]; multiplyMatrices returns the rows(A) x cols(B) matrix
\* of the sums over k of A[i][k] * B[k][j]; transpose returns the
\* cols(A) x rows(A) matrix with result[j][i] = A[i][j].
HasShape(M, m, n) == Len(M) = m /\ \A i \in 1..m : Len(M[i]) = n

C9_PrimitiveResults ==
    /\ op \in {"addMatrices", "subtractMatrices"}
         /\ NumRows(InputA) = NumRows(InputB) /\ NumCols(InputA) = NumCols(InputB)
       => /\ out.kind = "matrix"
          /\ HasShape(OutMatrix, NumRows(InputA), NumCols(InputA))
          /\ \A i \in 1..NumRows(InputA), j \in 1..NumCols(InputA) :
                 OutMatrix[i][j] = IF op = "addMatrices"
                                   THEN Add(InputA[i][j], InputB[i][j])
                                   ELSE Sub(InputA[i][j], InputB[i][j])
    /\ op = "multiplyMatrices" /\ NumCols(InputA) = NumRows(InputB)
       => /\ out.kind = "matrix"
          /\ HasShape(OutMatrix, NumRows(InputA), NumCols(InputB))
          /\ \A i \in 1..NumRows(InputA), j \in 1..NumCols(InputB) :
                 OutMatrix[i][j] =
                     SumOver(1..NumCols(InputA),
                             [k \in 1..NumCols(InputA) |-> Mul(InputA[i][k], InputB[k][j])])
    /\ op = "transpose"
       => /\ out.kind = "matrix"
          /\ HasShape(OutMatrix, NumCols(InputA), NumRows(InputA))
          /\ \A i \in 1..NumRows(InputA), j \in 1..NumCols(InputA) :
                 OutMatrix[j][i] = InputA[i][j]

\* A product has been returned for a first operand that is not square, with
\* a non-zero first term in its entry (1, 1).
C9_Witness ==
    /\ op = "multiplyMatrices"
    /\ out.kind = "matrix"
    /\ NumRows(InputA) # NumCols(InputA)
    /\ ~IsZero(Mul(InputA[1][1], InputB[1][1]))


\* ------------------------------------------- claims around the tolerance
\* "Non-zero" in the claims below: of magnitude above 1e-10.  (A value of
\* the inputs around the tolerance is within 1e-10 of 1 only if it is 1: a
\* fraction that close to 1 and different from it needs a numerator above
\* 10^10.)
IsNonZero(x) == AboveTol(x)

\* The column (from 1) of the leading entry of a row, 0 for a zero row.
LeadingCol(row) ==
    IF \E j \in 1..Len(row) : IsNonZero(row[j])
    THEN CHOOSE j \in 1..Len(row) : IsNonZero(row[j]) /\ \A k \in 1..(j - 1) : ~IsNonZero(row[k])
    ELSE 0

\* R is in reduced row-echelon form.
IsReducedRowEchelon(R) ==
    /\ \A i \in 1..Len(R) : LeadingCol(R[i]) # 0 =>
           /\ R[i][LeadingCol(R[i])] = One
           /\ \A k \in 1..Len(R) : k # i => ~IsNonZero(R[k][LeadingCol(R[i])])
    /\ \A i \in 1..(Len(R) - 1) :
           /\ LeadingCol(R[i]) = 0 => LeadingCol(R[i + 1]) = 0
           /\ LeadingCol(R[i + 1]) # 0 => LeadingCol(R[i]) < LeadingCol(R[i + 1])

\* C2: rref of an m x n matrix is an m x n matrix in reduced row-echelon
\* form.
C2_RrefIsReducedRowEchelon ==
    op = "rref" =>
        /\ HasShape(OutMatrix, NumRows(InputA), NumCols(InputA))
        /\ IsReducedRowEchelon(OutMatrix)

\* C3: rref of the matrix rref returned is that matrix.
C3_RrefIdempotent == op = "rref" => RrefOf(OutMatrix) = OutMatrix

\* C4: 0 <= rank(A) <= min(m, n); the rank of an all-zero matrix is 0 and
\* the rank of an identity matrix is its size.
IsAllZero(A) == \A i \in 1..NumRows(A), j \in 1..NumCols(A) : IsZero(A[i][j])
IsIdentity(A) ==
    /\ IsSquare(A)
    /\ \A i \in 1..NumRows(A), j \in 1..NumCols(A) : A[i][j] = IF i = j THEN One ELSE Zero

C4_RankBounds ==
    op = "rank" =>
        /\ out.val \in {Num(k) : k \in 0..Min(NumRows(InputA), NumCols(InputA))}
        /\ IsAllZero(InputA) => out.val = Zero
        /\ IsIdentity(InputA) => out.val = Num(NumRows(InputA))

\* x < y
Less(x, y) ==
    IF x[1] < 0 THEN (IF y[1] < 0 THEN AbsGt(x, y) ELSE TRUE)
    ELSE (IF y[1] <= 0 THEN FALSE ELSE AbsGt(y, x))

\* |x - c| < t
Within(x, c, t) == x = c \/ (Less(Sub(c, t), x) /\ Less(x, Add(c, t)))

\* The tolerance of the round trip, 1e-8.
RoundTripTol == Sci(1, -8)

\* C5: whenever inverse returns, A times the returned matrix is the identity
\* within the tolerance.
C5_InverseRoundTrip ==
    op = "inverse" /\ out.kind = "matrix" =>
        LET P == multiplyMatrices(InputA, OutMatrix).val
        IN  \A i \in 1..NumRows(InputA), j \in 1..NumRows(InputA) :
                Within(P[i][j], IF i = j THEN One ELSE Zero, RoundTripTol)

\* Whether the Gauss-Jordan loop, continued from the loop state s, comes to a
\* column whose pivot candidate of the largest magnitude is below 1e-10.
RECURSIVE MeetsSmallPivot(_)
MeetsSmallPivot(s) ==
    LET ids == s.h.mats[s.res]
    IN  IF s.i >= Min(Len(ids), Len(s.h.rows[ids[1]])) THEN FALSE
        ELSE \/ BelowTol(Entry(s.h.rows, ids,
                               FindMaxRow(s.h.rows, ids, s.i, s.i, s.i + 1), s.i))
             \/ MeetsSmallPivot(GaussJordanStep(s))

\* The Gauss-Jordan run of inverse(A) meets such a column.
InverseMeetsSmallPivot(A) ==
    LET n == NewMatrix(EmptyHeap, Augment(A))
        c == CopyMatrix(n.h, n.ref)
    IN  MeetsSmallPivot([h |-> c.h, res |-> c.ref, i |-> 0])

\* C6: inverse of a matrix larger than 2x2 whose Gauss-Jordan elimination
\* meets a pivot candidate below 1e-10 fails with a singular error.
C6_SmallPivotIsSingularError ==
    op = "inverse" /\ IsSquare(InputA) /\ NumRows(InputA) > 2 /\ InverseMeetsSmallPivot(InputA)
        => out = Error("Singular")

\* The columns (from 0) that hold the leading entry of a row of the
\* coefficient part of R.
PivotColumns(R, n) == {FirstPivotCol(R[i], n, 0) : i \in 1..Len(R)} \ {n}

\* C10: solveByRREF returns none exactly when the reduced [A|b] has a row
\* that is zero in the coefficient part and non-zero in the last column;
\* otherwise unique exactly when the pivot columns are as many as the
\* variables, and otherwise infinite with n - pivots free variables; only
\* unique carries a solution vector.
C10_SolveByRREFClassifies ==
    op = "solveByRREF" /\ out.kind = "solution" =>
        LET R == RrefOf(AugmentWith(InputA, InputV))
            n == NumCols(InputA)
            contradiction == \E i \in 1..Len(R) : IsContradictionRow(R[i], n)
            pivots == Cardinality(PivotColumns(R, n))
        IN  /\ out.val.type = "none" <=> contradiction
            /\ ~contradiction => /\ out.val.type = "unique" <=> pivots = n
                                 /\ out.val.type # "unique" =>
                                        out.val.type = "infinite" /\ out.val.free = n - pivots
            /\ out.val.hasSolution <=> out.val.type = "unique"

\* C11: solveByInverse returns, without throwing, a Solution of type none
\* with no solution vector when A is not square or |det(A)| < 1e-10, and for
\* every other A a Solution of type unique whose vector is inverse(A) times b.
C11_SolveByInverseClassifies ==
    op = "solveByInverse" /\ Len(InputA) = Len(InputV) =>
        /\ out.kind = "solution"
        /\ IF ~IsSquare(InputA) \/ BelowTol(CofactorExpansion(InputA))
           THEN out.val.type = "none" /\ ~out.val.hasSolution
           ELSE /\ out.val.type = "unique"
                /\ out.val.hasSolution
                /\ LET AInv == inverse(InputA).val
                       n == NumRows(InputA)
                   IN  out.val.solution =
                           [i \in 1..n |->
                               SumOver(1..n, [k \in 1..n |-> Mul(AInv[i][k], InputV[k])])]

\* solveByInverse has answered none for a square matrix whose determinant is
\* not zero but below the tolerance.
C11_Witness ==
    /\ op = "solveByInverse"
    /\ IsSquare(InputA)
    /\ ~IsZero(CofactorExpansion(InputA))
    /\ out.kind = "solution"
    /\ out.val.type = "none"

\* ---------------------------------------------------- claims on the traces
\* The trace a generator returned, and the contents its last step holds.
Trace == out.val
LastStep == Trace[Len(Trace)]
Shown(step) == MatrixOf(Heap, step.matrix)

\* C12: the matrix of the final step of a traced RREF run (generateRREFSteps
\* and generateGaussianSteps) is rref(input).
C12_FinalStepIsRref ==
    op \in {"generateRREFSteps", "generateGaussianSteps"} =>
        Shown(LastStep) = RrefOf(InputA)

\* C13: in every trace (RREF, inverse, LU) the matrix a step holds at the
\* end of the generation is the working matrix as it was right after that
\* step's operation: later operations have not changed it.
Generators ==
    {"generateRREFSteps", "generateGaussianSteps", "generateInverseSteps", "generateLUSteps"}

C13_StepsAreSnapshots ==
    op \in Generators => \A i \in 1..Len(Trace) : Shown(Trace[i]) = Trace[i].working

\* U after the elimination of column k (from 0) in the rows below row k,
\* without pivoting, for a pivot that is not zero.
EliminatedBelow(U, k) ==
    [i \in 1..Len(U) |->
        IF i <= k + 1 THEN U[i]
        ELSE [j \in 1..Len(U[i]) |->
                 Sub(U[i][j], Mul(Div(U[i][k + 1], U[k + 1][k + 1]), U[k + 1][j]))]]

\* Whether elimination without pivoting, continued from column k, comes to a
\* pivot below 1e-10 with a row below it.
RECURSIVE LUMeetsSmallPivot(_, _)
LUMeetsSmallPivot(U, k) ==
    IF k >= Len(U) - 1 THEN FALSE
    ELSE BelowTol(U[k + 1][k + 1]) \/ LUMeetsSmallPivot(EliminatedBelow(U, k), k + 1)

\* C14: the LU trace of a square matrix whose elimination meets a pivot
\* below 1e-10 with a row below it is returned, not thrown, and ends with
\* the zero-pivot step: no step follows it and no 'complete' step is in it.
C14_ZeroPivotEndsLUTrace ==
    op = "generateLUSteps" /\ IsSquare(InputA) /\ LUMeetsSmallPivot(InputA, 0) =>
        /\ out.kind = "steps"
        /\ LastStep.kind = "zeroPivot"
        /\ \A i \in 1..Len(Trace) :
               /\ Trace[i].kind = "zeroPivot" => i = Len(Trace)
               /\ Trace[i].kind # "complete"

\* An LU trace that ends with the zero-pivot step for a pivot that is not
\* zero, after a row has been eliminated in an earlier column.
C14_Witness ==
    /\ op = "generateLUSteps"
    /\ LastStep.kind = "zeroPivot"
    /\ \E i \in 1..Len(Trace) : Trace[i].kind = "eliminate"
    /\ \E k \in 1..Len(InputA) : ~IsZero(LastStep.working[k][k]) /\ BelowTol(LastStep.working[k][k])

\* C15: a traced inverse that meets a pivot below 1e-10 ends with the
\* 'matrix is singular' step: no step follows it, and none says that the
\* inverse calculation is complete.
C15_SingularEndsInverseTrace ==
    op = "generateInverseSteps" /\ (\E i \in 1..Len(Trace) : Trace[i].kind = "singular") =>
        /\ LastStep.kind = "singular"
        /\ \A i \in 1..Len(Trace) : Trace[i].kind # "complete"


\* ------------------------------------------ claims on advanced calculators
\* The product of n copies of A for n >= 1, the identity of A's size for
\* n = 0.
RECURSIVE PowerOf(_, _)
PowerOf(A, n) ==
    IF n = 0 THEN [i \in 1..NumRows(A) |-> [j \in 1..NumRows(A) |-> IF i = j THEN One ELSE Zero]]
    ELSE IF n = 1 THEN A
    ELSE multiplyMatrices(PowerOf(A, n - 1), A).val

\* C16: for every square matrix A and every integer n >= 0, the matrix power
\* requested through calculateMatrixFunction returns the identity of A's
\* size for n = 0, A for n = 1 and the product of n copies of A for n >= 2.
C16_MatrixPower ==
    (/\ op = "calculateMatrixFunction"
     /\ functionType = "power"
     /\ IsSquare(before.a)
     /\ powerValue >= 0)
    => /\ out.kind = "matrix"
       /\ OutMatrix = PowerOf(before.a, powerValue)

\* The sum of the diagonal of a square matrix.
TraceOf(A) == SumOver(1..NumRows(A), [i \in 1..NumRows(A) |-> A[i][i]])

\* trace^2 - 4 det
DiscriminantOf(A) == Sub(Mul(TraceOf(A), TraceOf(A)), Mul(Num(4), CofactorExpansion(A)))

\* r stands for (t + sign * sqrt(disc)) / 2.
IsRoot(r, t, sign, disc) ==
    r.trace = t /\ r.sign = sign /\ r.root.sqrt = disc /\ r.over = 2

\* C17: calculateCharacteristicPolynomial on a 2x2 matrix returns the
\* coefficients [1, -trace, det] and a list of roots that is empty exactly
\* when trace^2 - 4 det < 0 and otherwise holds (trace + sqrt(disc)) / 2 and
\* (trace - sqrt(disc)) / 2 in that order; on a square matrix with more than
\* two rows it fails with the unsupported error and on a matrix that is not
\* square with the not-square error.
C17_CharacteristicPolynomial ==
    op = "calculateCharacteristicPolynomial" =>
        LET A == before.a
        IN  /\ ~IsSquare(A) => out = Error("NotSquare")
            /\ IsSquare(A) /\ NumRows(A) > 2 => out = Error("Unsupported")
            /\ IsSquare(A) /\ NumRows(A) = 2 =>
                   /\ out.kind = "polynomial"
                   /\ out.val.coefficients = <<One, Neg(TraceOf(A)), CofactorExpansion(A)>>
                   /\ out.val.roots = <<>> <=> Less(DiscriminantOf(A), Zero)
                   /\ ~Less(DiscriminantOf(A), Zero) =>
                          /\ Len(out.val.roots) = 2
                          /\ IsRoot(out.val.roots[1], TraceOf(A), 1, DiscriminantOf(A))
                          /\ IsRoot(out.val.roots[2], TraceOf(A), -1, DiscriminantOf(A))

\* Two roots have been returned for a 2x2 matrix with a non-zero trace whose
\* discriminant is zero.
C17_Witness ==
    /\ op = "calculateCharacteristicPolynomial"
    /\ out.kind = "polynomial"
    /\ Len(out.val.roots) = 2
    /\ IsZero(DiscriminantOf(before.a))
    /\ ~IsZero(TraceOf(before.a))


\* ------------------------------------------------- claims on the vectors
\* The vector a call returned.
OutVector == rows[out.val]

\* The sum of the products of the entries of u and v.
Dot(u, v) == SumOver(1..Len(u), [i \in 1..Len(u) |-> Mul(u[i], v[i])])

IsZeroVector(u) == \A i \in 1..Len(u) : IsZero(u[i])

\* C19: a failed vector precondition is reported as an error, never as a
\* value: a length other than 3 for crossProduct, different lengths for
\* dotProduct, a zero vector for normalizeVector, and a zero vector as either
\* operand for angleBetweenVectors.
C19_VectorPreconditionErrors ==
    /\ op = "crossProduct" /\ (Len(before.va) # 3 \/ Len(before.vb) # 3)
         => out.kind = "error"
    /\ op = "dotProduct" /\ Len(before.va) # Len(before.vb)
         => out.kind = "error"
    /\ op = "normalizeVector" /\ IsZeroVector(before.va)
         => out.kind = "error"
    /\ op = "angleBetweenVectors" /\ (IsZeroVector(before.va) \/ IsZeroVector(before.vb))
         => out.kind = "error"

\* angleBetweenVectors has failed on two vectors of the same length, the
\* first not zero and the second zero.
C19_Witness ==
    /\ op = "angleBetweenVectors"
    /\ out = Error("DegenerateInput")
    /\ Len(before.va) = Len(before.vb)
    /\ ~IsZeroVector(before.va)
    /\ IsZeroVector(before.vb)


\* --------------------------------------------------- claims on the objects
\* The operations that return a matrix.
MatrixOperations ==
    {"addMatrices", "subtractMatrices", "scalarMultiply", "multiplyMatrices", "transpose",
     "inverse", "rref", "calculateMatrixFunction"}

\* The row objects of the matrix object m.
RowObjects(m) == {mats[m][i] : i \in 1..Len(mats[m])}

\* C20: the matrix returned by addMatrices, subtractMatrices,
\* scalarMultiply, multiplyMatrices, transpose, inverse, rref, the matrix
\* power for every n >= 0 and the matrix exponential, sine and cosine is a
\* new object: it is none of the operands and shares no row with an
\* operand.
C20_ResultsAreFresh ==
    (op \in MatrixOperations /\ out.kind = "matrix")
    => /\ out.val \notin {a, b}
       /\ RowObjects(out.val) \cap (RowObjects(a) \cup RowObjects(b)) = {}


\* ------------------------------------------------- claims on the rref loop
\* The working matrix of the call of rref in progress.
WorkingMatrix == MatrixOf(Heap, loop.res)

\* Every entry of column c (from 0) in the rows from p (from 0) on is of
\* magnitude below 1e-10.
ColumnIsNegligible(W, p, c) == \A i \in (p + 1)..Len(W) : BelowTol(W[i][c + 1])

\* The step of the cursor, for the working matrix W of m rows and n columns.
C21_Step ==
    /\ loop = NoLoop /\ loop' # NoLoop => loop'.pivotRow = 0 /\ loop'.col = 0
    /\ loop # NoLoop =>
          LET W == WorkingMatrix
              m == NumRows(W)
              n == NumCols(W)
          IN  /\ loop'.pivotRow >= loop.pivotRow
              /\ loop'.pivotRow \in 0..m
              /\ loop'.col # loop.col =>
                     /\ loop.col < n /\ loop.pivotRow < m
                     /\ loop'.col = loop.col + 1
                     /\ IF ColumnIsNegligible(W, loop.pivotRow, loop.col)
                        THEN loop'.pivotRow = loop.pivotRow /\ WorkingMatrix' = W
                        ELSE loop'.pivotRow = loop.pivotRow + 1
              /\ op' = "rref" => (loop.col = n \/ loop.pivotRow = m) /\ loop' = loop
              /\ (loop.col = n \/ loop.pivotRow = m) => op' = "rref"

\* C21: during rref on an m x n matrix pivotRow starts at 0, never
\* decreases and stays within 0..m; an iteration on a column whose entries
\* in the rows from pivotRow on are all below 1e-10 leaves pivotRow and the
\* matrix as they are, an iteration on any other column adds 1 to pivotRow;
\* the loop ends exactly when the n columns have been processed or
\* pivotRow = m.
C21_PivotRowCursor == [][C21_Step]_vars

\* rref has returned after it skipped the first column, none of whose
\* entries is zero, and placed a pivot in the second.
C21_Witness ==
    /\ op = "rref"
    /\ loop.col = 2
    /\ loop.pivotRow = 1
    /\ ColumnIsNegligible(before.a, 0, 0)
    /\ \A i \in 1..NumRows(before.a) : ~IsZero(before.a[i][1])


\* ------------------------------------------------- claims on whole traces
AllGenerators == Generators \cup {"generateEigenvalueSteps", "generateSVDSteps"}

\* The kinds of the steps that report an error, and of the steps that show
\* the starting state.
ErrorKinds == {"notSquare", "zeroPivot", "singular"}
StartKinds == {"start", "augmented", "initialize", "original"}

\* What the first step of a trace of the input A is to show.
UntouchedInput(A) == IF op = "generateInverseSteps" THEN Augment(A) ELSE A

NoErrorStep == \A i \in 1..Len(Trace) : Trace[i].kind \notin ErrorKinds

\* A trace is a non-empty sequence of steps with the ids 0, 1, 2, ...
IsNumberedTrace ==
    /\ out.kind = "steps"
    /\ Len(Trace) >= 1
    /\ \A i \in 1..Len(Trace) : Trace[i].id = i - 1

\* C22 as stated: every trace returned by the RREF, inverse, LU, eigen and
\* SVD generators is non-empty, has the step ids 0, 1, 2, ... in order,
\* starts with the starting-state step showing the untouched input (the
\* augmented matrix for the inverse) and, when it holds no error step, ends
\* with the 'complete' step.
C22_TraceIsBracketed ==
    op \in AllGenerators =>
        /\ IsNumberedTrace
        /\ Trace[1].kind \in StartKinds
        /\ Shown(Trace[1]) = UntouchedInput(before.a)
        /\ NoErrorStep => LastStep.kind = "complete"

\* C22 as amended: every trace is non-empty, has the step ids 0, 1, 2, ...
\* and a first step that shows the untouched input; the first step is the
\* starting-state step unless the trace is the single error step that the
\* LU and eigen generators return for a matrix that is not square; a trace
\* without an error step ends with the 'complete' step, for the SVD trace
\* with its closing 'SVD Components' step.
C22_TraceIsBracketedAmended ==
    op \in AllGenerators =>
        /\ IsNumberedTrace
        /\ Shown(Trace[1]) = UntouchedInput(before.a)
        /\ IF op \in {"generateLUSteps", "generateEigenvalueSteps"} /\ ~IsSquare(before.a)
           THEN Len(Trace) = 1 /\ Trace[1].kind = "notSquare"
           ELSE Trace[1].kind \in StartKinds
        /\ NoErrorStep =>
               LastStep.kind = IF op = "generateSVDSteps" THEN "components" ELSE "complete"

\* An eigen trace of seven steps: the original matrix, the characteristic
\* matrix and polynomial, the eigenvalues, two eigenvectors, the end.
C22_Witness ==
    /\ op = "generateEigenvalueSteps"
    /\ Len(Trace) = 7
    /\ LastStep.kind = "complete"
    /\ LastStep.id = 6

\* -------------------------------------------------- the traced inverse
\* The matrix inverse returns for the contents A.
InverseOf(A) == inverse(A).val

\* The inverse that a traced inverse shows: columns n..2n-1 of its last step.
TracedInverse == RightHalf(Shown(LastStep), NumRows(before.a))

\* Math.abs(x) and Math.abs(y) differ by a factor above 2, so that
\* |x - y| is more than half the larger of them.
FarApart(x, y) == AbsGt(x, Mul(Num(2), y)) \/ AbsGt(y, Mul(Num(2), x))

\* The one of x and y that is larger in absolute value.
Larger(x, y) == IF AbsGt(x, y) THEN x ELSE y

\* |x - c| < t.  When the magnitudes of x and c are far apart, |x - c| lies
\* between half and twice the larger: the difference, whose numerator may
\* not fit, is formed only when that does not decide.
CloseTo(x, c, t) ==
    IF x = c THEN TRUE
    ELSE IF FarApart(x, c) /\ ~AbsGt(Mul(Num(2), t), Larger(x, c)) THEN FALSE
    ELSE IF FarApart(x, c) /\ AbsGt(t, Mul(Num(2), Larger(x, c))) THEN TRUE
    ELSE AbsGt(t, Sub(x, c))

\* C23: for a square matrix that inverse takes as non-singular, the right
\* half of the final step of the traced inverse is inverse(A) within the
\* tolerance, entry by entry, for n = 2 as well.
C23_TracedInverseIsInverse ==
    op = "generateInverseSteps" /\ IsSquare(before.a) /\ ~IsError(inverse(before.a)) =>
        \A i \in 1..NumRows(before.a), j \in 1..NumRows(before.a) :
            CloseTo(TracedInverse[i][j], InverseOf(before.a)[i][j], Tol)


\* ---------------------------------------------- the series of a matrix
RECURSIVE Factorial(_)
Factorial(k) == IF k = 0 THEN 1 ELSE k * Factorial(k - 1)

\* The first n values of the function f, as a tuple.
RECURSIVE Tabulated(_, _)
Tabulated(f, n) == IF n = 0 THEN <<>> ELSE Append(Tabulated(f, n - 1), f[n])

\* The matrix M written out entry by entry.
Table(M) == Tabulated([i \in 1..NumRows(M) |-> Tabulated(M[i], NumCols(M))], NumRows(M))

\* A^k, every product written out before the next is formed.
RECURSIVE PowerTable(_, _)
PowerTable(A, k) ==
    IF k = 0 THEN Table(identity(NumRows(A)))
    ELSE Table(multiplyMatrices(PowerTable(A, k - 1), A).val)

\* sign * A^k / k!
TaylorTerm(A, k, sign) ==
    Table(scalarMultiply(PowerTable(A, k), Div(Num(sign), Num(Factorial(k)))).val)

\* The sum of the terms sign(j) * A^(first + j * by) / (first + j * by)! for
\* j = 0..last, sign(j) being 1 when alternating is false and (-1)^j when
\* it is true.
RECURSIVE TaylorSum(_, _, _, _, _)
TaylorSum(A, first, by, alternating, last) ==
    LET term == TaylorTerm(A, first + last * by,
                           IF alternating /\ last % 2 = 1 THEN -1 ELSE 1)
    IN  IF last = 0 THEN term
        ELSE Table(addMatrices(TaylorSum(A, first, by, alternating, last - 1), term).val)

IsZeroMatrix(A) == \A i \in 1..NumRows(A), j \in 1..NumCols(A) : IsZero(A[i][j])

\* The value the claim gives the function func on A.
SeriesOf(A, func) ==
    CASE func = "exp" -> TaylorSum(A, 0, 1, FALSE, 10)
      [] func = "sin" -> TaylorSum(A, 1, 2, TRUE, 4)
      [] func = "cos" -> TaylorSum(A, 0, 2, TRUE, 4)

\* The value the claim gives the function func on a matrix whose square is
\* zero: I + A, A and I.
SeriesOfSquareZero(A, func) ==
    CASE func = "exp" -> addMatrices(identity(NumRows(A)), A).val
      [] func = "sin" -> A
      [] func = "cos" -> identity(NumRows(A))

\* C24: on a square matrix, matrixExponential returns the sum of A^k / k!
\* for k = 0..10, matrixSine the sum of (-1)^j A^(2j+1) / (2j+1)! and
\* matrixCosine the sum of (-1)^j A^(2j) / (2j)! for j = 0..4; on a matrix
\* whose square is zero (the zero matrix among them) they return I + A, A
\* and I, which are I, 0 and I on the zero matrix.
C24_SeriesAreTaylorSums ==
    (/\ op = "calculateMatrixFunction"
     /\ functionType \in {"exp", "sin", "cos"}
     /\ IsSquare(before.a)) =>
        /\ out.kind = "matrix"
        /\ OutMatrix = SeriesOf(before.a, functionType)
        /\ IsZeroMatrix(PowerTable(before.a, 2)) =>
               OutMatrix = SeriesOfSquareZero(before.a, functionType)
        /\ IsZeroMatrix(before.a) =>
               OutMatrix = IF functionType = "sin" THEN before.a
                           ELSE identity(NumRows(before.a))

\* The sine of the largest shift matrix, its alternating terms all present.
C24_Witness ==
    /\ op = "calculateMatrixFunction"
    /\ functionType = "sin"
    /\ before.a = ShiftMatrix(MaxShift)
    /\ OutMatrix[1][4] = Norm(-1, 6, 0)
    /\ OutMatrix[1][10] = Norm(1, Factorial(9), 0)
    /\ IsZero(OutMatrix[1][12])


\* ---------------------------------------------- claims on the eigenvectors
\* A times the vector v.
Apply(A, v) == [i \in 1..2 |-> Add(Mul(A[i][1], v[1]), Mul(A[i][2], v[2]))]

\* lambda times the vector v.
Stretch(lambda, v) == [i \in 1..2 |-> Mul(lambda, v[i])]

\* The normalized vector w is not zero (nor 0 / 0) and A w = lambda w: the
\* positive factor times / norm is common to both sides.
IsEigenpair(A, lambda, w) ==
    /\ ~SqrtIsZero(w.over)
    /\ Apply(A, w.of) = Stretch(lambda, w.of)

\* C25: for a 2x2 matrix with a non-negative discriminant, each eigenvector
\* that the eigen visualisation and the principal components derive for an
\* eigenvalue is non-zero and is an eigenvector of that eigenvalue, the
\* fallback basis vectors of a diagonal matrix included.
C25_EigenvectorsBelongToEigenvalues ==
    op \in {"drawEigenvalues", "calculatePCA"} /\ out.kind = "eigen" =>
        \A i \in 1..2 : IsEigenpair(before.a, out.val.lambda[i], out.val.v[i])


\* ------------------------------------------- claims on the solution vector
\* Row i of A times the vector x.
RowTimes(A, x, i) == SumOver(1..Len(x), [j \in 1..Len(x) |-> Mul(A[i][j], x[j])])

\* A x = rhs within the tolerance, row by row.
Solves(A, x, rhs) == \A i \in 1..NumRows(A) : CloseTo(RowTimes(A, x, i), rhs[i], Tol)

\* C26: a solution that solveByRREF or solveByInverse returns as unique has
\* one entry for each of the n variables and satisfies A x = b within the
\* tolerance (so the two strategies agree where both return unique).
C26_UniqueSolutionSolves ==
    (/\ op \in {"solveByRREF", "solveByInverse"}
     /\ out.kind = "solution"
     /\ out.val.type = "unique") =>
        /\ Len(out.val.solution) = NumCols(before.a)
        /\ Solves(before.a, out.val.solution, before.vb)


\* ------------------------------------------------ claims on step playback
OnLastStep == currentStep = Len(steps) - 1

\* C27: when auto-play has advanced to the last step, isPlaying is false;
\* a 'previous step' that follows leaves playback paused, with no timer
\* that would advance the index before the user presses play.
C27_Step ==
    /\ op' = "tick" /\ currentStep' = Len(steps') - 1 => ~isPlaying'
    /\ op = "tick" /\ OnLastStep /\ op' = "prevStep" => ~isPlaying' /\ timer' = "none"

C27_AutoplayStopsAtLastStep == [][C27_Step]_vars

\* C28: whenever the trace is not empty, the index of the step shown is
\* one of 0 .. steps.length - 1.
C28_CurrentStepInRange == steps # <<>> => currentStep \in 0..(Len(steps) - 1)

\* The timeout of InteractiveAnimations, which advances without a test of
\* its own, has brought the player to its last step.
C28_Witness ==
    /\ component = "InteractiveAnimations"
    /\ op = "tick"
    /\ Len(steps) > 1
    /\ OnLastStep

\* ---------------------------------------------------- claims on the quizzes
\* The sum of the points of the questions of the quiz with an index in S.
RECURSIVE PointsOf(_, _)
PointsOf(questions, S) ==
    IF S = {} THEN 0
    ELSE LET i == CHOOSE i \in S : TRUE
         IN  questions[i + 1] + PointsOf(questions, S \ {i})

\* C30: when a quiz is completed, the experience points and the total score
\* added to the stored progress are the sum of the points of the questions
\* answered correctly, the last one included, and so is the score shown on
\* the completion screen.
C30_Step ==
    ~quizComplete /\ quizComplete' =>
        /\ userProgress'.xp - userProgress.xp = PointsOf(currentQuiz', answeredCorrectly')
        /\ userProgress'.totalScore - userProgress.totalScore
               = PointsOf(currentQuiz', answeredCorrectly')
        /\ score' = PointsOf(currentQuiz', answeredCorrectly')

C30_CompletionAddsScore == [][C30_Step]_vars


\* ------------------------------------------- claims on the steps of a trace
\* The rows (from 1) in which the matrices X and Y of one shape differ.
RowsChanged(X, Y) == {i \in 1..Len(X) : X[i] # Y[i]}

\* Y is X with its rows p and q (from 0) exchanged, p and q different.
IsSwapOf(X, Y, p, q) ==
    /\ p # q
    /\ Y[p + 1] = X[q + 1]
    /\ Y[q + 1] = X[p + 1]
    /\ RowsChanged(X, Y) \subseteq {p + 1, q + 1}

\* Y is X with its row p (from 0) divided by one of its entries.
IsScaleOf(X, Y, p) ==
    /\ RowsChanged(X, Y) \subseteq {p + 1}
    /\ \E c \in 1..Len(X[p + 1]) :
           /\ ~IsZero(X[p + 1][c])
           /\ Y[p + 1] = ScaleRow(X[p + 1], X[p + 1][c])

\* Y is X with factor times row q taken from row i (both from 0), the
\* factor being an entry of row i above the tolerance.
IsEliminationOf(X, Y, i, q) ==
    /\ i # q
    /\ RowsChanged(X, Y) \subseteq {i + 1}
    /\ \E c \in 1..Len(X[i + 1]) :
           /\ AboveTol(X[i + 1][c])
           /\ Y[i + 1] = EliminateRow(X[i + 1], X[i + 1][c], X[q + 1])

\* The step k (from 2) of the trace follows from the step before it by the
\* operation of its label.
FollowsByItsOperation(k) ==
    CASE Trace[k].kind = "swap" ->
             IsSwapOf(Shown(Trace[k - 1]), Shown(Trace[k]), Trace[k].row, Trace[k].other)
      [] Trace[k].kind = "scale" ->
             IsScaleOf(Shown(Trace[k - 1]), Shown(Trace[k]), Trace[k].row)
      [] Trace[k].kind = "eliminate" ->
             IsEliminationOf(Shown(Trace[k - 1]), Shown(Trace[k]), Trace[k].row, Trace[k].other)
      [] Trace[k].kind = "complete" -> Shown(Trace[k]) = Shown(Trace[k - 1])
      [] OTHER -> TRUE

\* C29: in the traced RREF and the traced inverse of StepByStepMode, every
\* step after the first shows the matrix of the step before it changed by
\* the row operation of its label and by nothing else: a swap exchanges its
\* two rows, a scale or an elimination changes its target row only, and the
\* 'complete' step shows the matrix of the step before it.
C29_StepsFollowByRowOperations ==
    op \in {"generateRREFSteps", "generateInverseSteps"} =>
        \A k \in 2..Len(Trace) : FollowsByItsOperation(k)

\* A traced inverse with a swap, a scaling that changes its row and an
\* elimination.
C29_Witness ==
    /\ op = "generateInverseSteps"
    /\ LastStep.kind = "complete"
    /\ \E k \in 2..Len(Trace) : Trace[k].kind = "swap"
    /\ \E k \in 2..Len(Trace) :
           Trace[k].kind = "scale" /\ Shown(Trace[k]) # Shown(Trace[k - 1])
    /\ \E k \in 2..Len(Trace) : Trace[k].kind = "eliminate"


====
